---- MODULE Spec2Model ----
(***************************************************************************)
(* A model of the report synchronization pipeline of indlovu:              *)
(*   appstore_api.py  AppStoreClient (get_instances, get_segments,         *)
(*                    download_segment, download_instance), get_date_range *)
(*   weekly_sync.py   WeeklySyncJob (_download_reports, _download_firebase,*)
(*                    _create_summary)                                     *)
(*   cli.py           download_all_reports                                 *)
(* Spec is one run of the orchestrator (weekly_sync or cli --download-all) *)
(* over the shipped catalog; SpecMat is one call of download_instance on   *)
(* inputs drawn from bounded sets.                                         *)
(***************************************************************************)
EXTENDS Integers, Sequences, FiniteSets, TLC

VARIABLES
    prog,        \* which program runs: "weekly_sync", "cli" or "materialize"
    pc,          \* the stage the run is in
    i,           \* index into the catalog (outer for loop)
    j,           \* index into the definition's granularities (inner for loop)
    k,           \* index into firebase_reports
    downloaded,  \* self.downloaded / downloaded: the outcome list
    out,         \* the lines printed so far to the console
    fs,          \* the output directory: path -> bytes
    written,     \* the paths whose final write_bytes / export completed in this run
    listed,      \* the get_instances requests sent so far, in order
    trace,       \* the calls and file operations of the cell processed last, and
                 \* the exception that reached the cell's except clause
    md,          \* the summary document, None until it is written
    faults,      \* departures from the nominal environment so far, a missing Google
                 \* setting included
    arg,         \* download_instance's inputs (SpecMat)
    ret,         \* download_instance's result (SpecMat)
    config,      \* which settings of the .env file and which credential files are there
    sheets,      \* the spreadsheet: tab name -> rows of cells
    u,           \* index into self.downloaded (the loop of _upload_to_sheets)
    api,         \* the spreadsheet calls made for the file handled last
    grid         \* the spreadsheet: tab name -> the rows and columns of its grid

vars == <<prog, pc, i, j, k, downloaded, out, fs, written, listed, trace, md,
          faults, arg, ret, config, sheets, u, api, grid>>

\* Python's None, and Optional values: None or Some(x)
None == <<>>
Some(x) == <<x>>
The(o) == o[1]

(***************************************************************************)
(* Bounds of the model                                                     *)
(***************************************************************************)
\* at most this many cells (or secondary reports) of one run meet another
\* environment than the nominal one
MaxFaults == 1
\* longest segment list the server returns in SpecMat
MaxSegments == 2

(***************************************************************************)
(* Text: a str is a sequence of characters, compared by code point          *)
(***************************************************************************)
\* the characters used, in ascending code point order
Ascii == <<"-", ".", "0", "1", "2", "3", "4", "5", "6", "7", "8", "9",
           "D", "T", "U", "_", "a", "b", "c", "d", "e", "f", "g", "h", "i", "k",
           "l", "m", "n", "o", "p", "r", "s", "t", "u", "v", "w", "y">>

Ord(c) == CHOOSE n \in 1..Len(Ascii) : Ascii[n] = c

isdigit(c) == c \in {"0", "1", "2", "3", "4", "5", "6", "7", "8", "9"}


\* s < t for Python str: the first differing character decides, a proper
\* prefix is smaller
RECURSIVE StrLessFrom(_, _, _)
StrLessFrom(s, t, n) ==
    IF n > Len(s) THEN n <= Len(t)
    ELSE IF n > Len(t) THEN FALSE
    ELSE IF s[n] # t[n] THEN Ord(s[n]) < Ord(t[n])
    ELSE StrLessFrom(s, t, n + 1)

StrLess(s, t) == StrLessFrom(s, t, 1)

\* sorted(dates)[0] and sorted(dates)[-1]
StrMin(S) == CHOOSE s \in S : \A t \in S : t = s \/ StrLess(s, t)
StrMax(S) == CHOOSE s \in S : \A t \in S : t = s \/ StrLess(t, s)

Date_ == <<"D", "a", "t", "e">>
Units_ == <<"U", "n", "i", "t", "s">>
Total_ == <<"T", "o", "t", "a", "l">>
Dash == <<"-">>
\* dates, month and day
D0101 == <<"0", "1", "-", "0", "1">>
D0105 == <<"0", "1", "-", "0", "5">>
D0103 == <<"0", "1", "-", "0", "3">>

(***************************************************************************)
(* Bytes of a file or of a response body.  enc tells what the bytes are:   *)
(* "identity" is UTF-8 tab-delimited text whose lines are rows, "gzip" is  *)
(* a gzip member whose decompressed bytes are that text.                   *)
(***************************************************************************)
Plain(rows) == [enc |-> "identity", rows |-> rows]
Gz(rows) == [enc |-> "gzip", rows |-> rows]

RECURSIVE SumLen(_)
SumLen(row) == IF row = <<>> THEN 0 ELSE Len(Head(row)) + SumLen(Tail(row))

\* bytes of one line: the fields, the tabs between them, the newline
LineSize(row) == SumLen(row) + (IF Len(row) > 0 THEN Len(row) - 1 ELSE 0) + 1

RECURSIVE TextSize(_)
TextSize(rows) == IF rows = <<>> THEN 0 ELSE LineSize(Head(rows)) + TextSize(Tail(rows))

\* st_size.  A gzip member is 10 bytes of header, the deflate stream (here
\* one stored block: 5 bytes and the data) and 8 bytes of trailer.
Size(bytes) ==
    IF bytes.enc = "gzip" THEN 23 + TextSize(bytes.rows)
    ELSE TextSize(bytes.rows)

\* gzip.open(gz_path, 'rb').read(): the decompressed bytes, or BadGzipFile
\* when the file is not a gzip member
GunzipOk(bytes) == bytes.enc = "gzip"
Gunzip(bytes) == Plain(bytes.rows)

\* what a write_bytes that fails part-way leaves behind: the file was
\* created or truncated by open and holds none of the rows
Truncated == [enc |-> "truncated", rows |-> <<>>]

\* a byte that is not valid UTF-8; a row holding one cannot be decoded
Undecodable == "\\xff"

IsBadRow(row) ==
    \E f \in 1..Len(row) : \E c \in 1..Len(row[f]) : row[f][c] = Undecodable

\* the reference payload of the nominal cell, and another one
RefRows == << <<Date_, Units_>>, <<D0105, <<"3">>>>, <<D0101, <<"7">>>>, <<Total_, <<"9">>>> >>
AltRows == << <<Date_, Units_>>, <<D0103, <<"4">>>> >>

(***************************************************************************)
(* Exceptions: [type, msg]; str(e) is msg                                  *)
(***************************************************************************)
Exc(type, msg) == Some([type |-> type, msg |-> msg])
Raise(type, msg) == [exc |-> Exc(type, msg), val |-> None]
Return(val) == [exc |-> None, val |-> val]
Raised(r) == r.exc # None

\* the classes an `except Exception` clause catches, among those raised here
ExceptionSubclasses ==
    {"Exception", "ConnectionError", "HTTPError", "KeyError", "BadGzipFile",
     "OSError", "FileNotFoundError"}

(***************************************************************************)
(* The catalogs                                                            *)
(***************************************************************************)
REQUEST_ID == "REQ"

Tpl(pre, placeholder, post) == [pre |-> pre, placeholder |-> placeholder, post |-> post]

Def(prefix, granularities, tpl) ==
    [prefix |-> prefix, granularities |-> granularities, filename_tpl |-> tpl]

ALL3 == <<"DAILY", "WEEKLY", "MONTHLY">>

REPORTS == <<
    Def("r3", <<"DAILY">>, Tpl("downloads_standard_", "{g}", ".csv")),
    Def("r4", ALL3, Tpl("downloads_detailed_", "{g}", ".csv")),
    Def("r12", ALL3, Tpl("purchases_standard_", "{g}", ".csv")),
    Def("r6", ALL3, Tpl("install_delete_standard_", "{g}", ".csv")),
    Def("r8", ALL3, Tpl("sessions_standard_", "{g}", ".csv")),
    Def("r9", <<"WEEKLY", "MONTHLY">>, Tpl("sessions_detailed_", "{g}", ".csv")),
    Def("r14", ALL3, Tpl("discovery_standard_", "{g}", ".csv")),
    Def("r15", ALL3, Tpl("discovery_detailed_", "{g}", ".csv")) >>

REPORTS_CONFIG == <<
    Def("r3", <<"DAILY">>, Tpl("downloads_standard_", "{granularity}", ".csv")),
    Def("r4", ALL3, Tpl("downloads_detailed_", "{granularity}", ".csv")),
    Def("r12", ALL3, Tpl("purchases_standard_", "{granularity}", ".csv")),
    Def("r6", ALL3, Tpl("install_delete_standard_", "{granularity}", ".csv")),
    Def("r8", ALL3, Tpl("sessions_standard_", "{granularity}", ".csv")),
    Def("r9", <<"WEEKLY", "MONTHLY">>, Tpl("sessions_detailed_", "{granularity}", ".csv")),
    Def("r14", ALL3, Tpl("discovery_standard_", "{granularity}", ".csv")),
    Def("r15", ALL3, Tpl("discovery_detailed_", "{granularity}", ".csv")) >>

lower_AllDaily(g) == "daily"

\* str.lower() on the granularity names
lower(g) ==
    CASE g = "DAILY" -> "daily"
      [] g = "WEEKLY" -> "weekly"
      [] g = "MONTHLY" -> "monthly"

\* filename_tpl.format(<name>=value), as pathlib then reads it: the text up
\* to the last dot is the stem, the rest the suffix
Format(tpl, name, value) ==
    [stem |-> tpl.pre \o (IF tpl.placeholder = "{" \o name \o "}" THEN value
                          ELSE tpl.placeholder),
     suffix |-> tpl.post]

\* the filename as a str
Name(f) == f.stem \o f.suffix

\* output_path.with_suffix(s)
with_suffix(path, s) == [path EXCEPT !.suffix = s]

\* f"{prefix}-{REQUEST_ID}"
ReportId(prefix, request_id) == prefix \o "-" \o request_id

(***************************************************************************)
(* The environment of one cell: what the remote service answers and what   *)
(* the disk does.  A response is [kind |-> "neterr"] (requests raises) or  *)
(* [kind |-> "http", status, ...].                                         *)
(***************************************************************************)
NetErr == [kind |-> "neterr"]
ApiResp(status, data) == [kind |-> "http", status |-> status, data |-> data]
HttpResp(status, ctype, content) ==
    [kind |-> "http", status |-> status, ctype |-> ctype, content |-> content]

\* an instance object; id is NoKey when the object has no "id" key
NoKey == "(no key)"
Instance(id) == [id |-> id]

\* what stands for a key that is not there: a response without the
\* Content-Type header, an entry without "source" (dict.get gives None)
Absent == "(absent)"

\* the tail of a segment's download URL after the host and the segment's
\* name; NoUrl: the segment's attributes hold no "url" (attrs.get gives None)
NoUrl == None
CsvTail == <<".csv">>
GzTail == <<".csv", ".gz">>
SignedGzTail == <<".csv", ".gz", "?sig=1">>
UrlTails == {NoUrl, CsvTail, GzTail, SignedGzTail}

\* the segment objects the service lists for an instance: one per tail, the
\* URL naming the instance and the segment's position
Segment(instance_id, n, tail) ==
    [url |-> IF tail = NoUrl THEN None
             ELSE <<"https://host/", instance_id, ToString(n)>> \o tail]

SegmentsOf(instance_id, tails) ==
    [n \in 1..Len(tails) |-> Segment(instance_id, n, tails[n])]

\* str.endswith on a URL given as its pieces
endswith(url, piece) == Len(url) > 0 /\ url[Len(url)] = piece

\* response.ok
Ok(resp) == resp.status < 400

(***************************************************************************)
(* The machine a call runs on: m = [fs, written, trace]                    *)
(***************************************************************************)
Log(m, entry) == [m EXCEPT !.trace = Append(@, entry)]

Put(f, path, bytes) ==
    [p \in DOMAIN f \cup {path} |-> IF p = path THEN bytes ELSE f[p]]

Del(f, path) == [p \in DOMAIN f \ {path} |-> f[p]]

\* path.write_bytes(bytes): fault "open" fails before the file is touched,
\* fault "write" after open has created or truncated it
write_bytes(m, path, bytes, fault) ==
    CASE fault = "open" ->
           [m |-> m, exc |-> Exc("OSError", "Permission denied")]
      [] fault = "write" ->
           [m |-> [m EXCEPT !.fs = Put(@, path, Truncated)],
            exc |-> Exc("OSError", "No space left on device")]
      [] OTHER ->
           [m |-> Log([m EXCEPT !.fs = Put(@, path, bytes)],
                      [op |-> "write", path |-> path, bytes |-> bytes]),
            exc |-> None]

\* gz_path.unlink()
unlink(m, path) ==
    Log([m EXCEPT !.fs = Del(@, path)], [op |-> "unlink", path |-> path])

\* AppStoreClient._get
ApiGet(resp) ==
    IF resp.kind = "neterr" THEN Raise("ConnectionError", "Connection refused")
    ELSE IF ~Ok(resp) THEN Raise("Exception", "API error " \o ToString(resp.status))
    ELSE Return(resp.data)

(***************************************************************************)
(* appstore_api.py                                                         *)
(***************************************************************************)
\* AppStoreClient.get_instances: [m, exc, val]
get_instances(m, report_id, granularity, env) ==
    LET r == ApiGet(env.inst)
    IN  [m |-> Log(m, [op |-> "get_instances", report_id |-> report_id,
                       granularity |-> granularity, data |-> r.val]),
         exc |-> r.exc, val |-> r.val]

\* AppStoreClient.get_segments: the service lists the segments of the
\* instance asked for
get_segments(m, instance_id, env) ==
    LET r == ApiGet(env.segs)
        segments == IF Raised(r) THEN None ELSE SegmentsOf(instance_id, r.val)
    IN  [m |-> Log(m, [op |-> "get_segments", instance_id |-> instance_id,
                       data |-> segments]),
         exc |-> r.exc,
         val |-> segments]

is_gzipped_SuffixOnly(download_url, resp) == endswith(download_url, ".gz")

\* the test download_segment makes on the URL and the response headers
is_gzipped(download_url, resp) ==
    endswith(download_url, ".gz") \/ resp.ctype = "application/gzip"

\* env.disk = [at, how]: which write_bytes of download_segment fails
\* ("gz", "out" or "none") and how ("open" or "write")
NoFault == [at |-> "none", how |-> "none"]
GzFault(env) == IF env.disk.at = "gz" THEN env.disk.how ELSE "none"
OutFault(env) == IF env.disk.at = "out" THEN env.disk.how ELSE "none"

\* the destination file is complete: recorded in m.written
Materialized(m, path) == [m EXCEPT !.written = @ \cup {path}]

DownloadGzipped_KeepsGz(m, resp, output_path, env) ==
    LET gz_path == with_suffix(output_path, ".csv.gz")
        w1 == write_bytes(m, gz_path, resp.content, GzFault(env))
    IN  IF w1.exc # None THEN [m |-> w1.m, exc |-> w1.exc, val |-> None]
        ELSE IF ~GunzipOk(w1.m.fs[gz_path])
        THEN [m |-> w1.m,
              exc |-> Exc("BadGzipFile", "Not a gzipped file"),
              val |-> None]
        ELSE LET w2 == write_bytes(w1.m, output_path, Gunzip(w1.m.fs[gz_path]),
                                   OutFault(env))
             IN  IF w2.exc # None THEN [m |-> w2.m, exc |-> w2.exc, val |-> None]
                 ELSE [m |-> Materialized(w2.m, output_path),
                       exc |-> None, val |-> Some(output_path)]

DownloadGzipped_OpensFirst(m, resp, output_path, env) ==
    LET gz_path == with_suffix(output_path, ".csv.gz")
        w1 == write_bytes(m, gz_path, resp.content, GzFault(env))
    IN  IF w1.exc # None THEN [m |-> w1.m, exc |-> w1.exc, val |-> None]
        ELSE IF ~GunzipOk(w1.m.fs[gz_path])
        THEN [m |-> [w1.m EXCEPT !.fs = Put(@, output_path, Truncated)],
              exc |-> Exc("BadGzipFile", "Not a gzipped file"),
              val |-> None]
        ELSE LET w2 == write_bytes(w1.m, output_path, Gunzip(w1.m.fs[gz_path]),
                                   OutFault(env))
             IN  IF w2.exc # None THEN [m |-> w2.m, exc |-> w2.exc, val |-> None]
                 ELSE [m |-> unlink(Materialized(w2.m, output_path), gz_path),
                       exc |-> None, val |-> Some(output_path)]

\* the compressed branch of download_segment, after the test
DownloadGzipped(m, resp, output_path, env) ==
    LET gz_path == with_suffix(output_path, ".csv.gz")
        w1 == write_bytes(m, gz_path, resp.content, GzFault(env))
    IN  IF w1.exc # None THEN [m |-> w1.m, exc |-> w1.exc, val |-> None]
        ELSE IF ~GunzipOk(w1.m.fs[gz_path])
        THEN [m |-> w1.m,
              exc |-> Exc("BadGzipFile", "Not a gzipped file"),
              val |-> None]
        ELSE LET w2 == write_bytes(w1.m, output_path, Gunzip(w1.m.fs[gz_path]),
                                   OutFault(env))
             IN  IF w2.exc # None THEN [m |-> w2.m, exc |-> w2.exc, val |-> None]
                 ELSE [m |-> unlink(Materialized(w2.m, output_path), gz_path),
                       exc |-> None, val |-> Some(output_path)]

DownloadVerbatim_SwallowsError(m, resp, output_path, env) ==
    LET w == write_bytes(m, output_path, resp.content, OutFault(env))
    IN  [m |-> IF w.exc = None THEN Materialized(w.m, output_path) ELSE w.m,
         exc |-> None, val |-> Some(output_path)]

\* the other branch
DownloadVerbatim(m, resp, output_path, env) ==
    LET w == write_bytes(m, output_path, resp.content, OutFault(env))
    IN  IF w.exc # None THEN [m |-> w.m, exc |-> w.exc, val |-> None]
        ELSE [m |-> Materialized(w.m, output_path), exc |-> None, val |-> Some(output_path)]

\* AppStoreClient.download_segment: [m, exc, val]
download_segment(m, download_url, output_path, env) ==
    LET resp == env.http
        m1 == Log(m, [op |-> "GET", url |-> download_url])
    IN  IF resp.kind = "neterr"
        THEN [m |-> m1, exc |-> Exc("ConnectionError", "Read timed out"),
              val |-> None]
        ELSE IF ~Ok(resp)
        THEN [m |-> m1,
              exc |-> Exc("HTTPError", ToString(resp.status) \o " Error"),
              val |-> None]
        ELSE IF is_gzipped(download_url, resp)
        THEN DownloadGzipped(m1, resp, output_path, env)
        ELSE DownloadVerbatim(m1, resp, output_path, env)

\* a loop that does not return from its body: the last segment with a URL
SegmentToDownload_Last(segments, q) ==
    LET S == {n \in q..Len(segments) : segments[n].url # None}
    IN  IF S = {} THEN 0 ELSE CHOOSE n \in S : \A o \in S : o <= n

\* the segment download_instance's for loop stops at: the loop skips the
\* segments without a URL and returns from the first one that has one;
\* 0 when the loop runs to its end
RECURSIVE SegmentToDownload(_, _)
SegmentToDownload(segments, n) ==
    IF n > Len(segments) THEN 0
    ELSE IF segments[n].url = None THEN SegmentToDownload(segments, n + 1)
    ELSE n

download_instance_Placeholder(m, instance_id, filename, env) ==
    LET s == get_segments(m, instance_id, env)
    IN  IF s.exc # None THEN s
        ELSE IF s.val = <<>>
        THEN [m |-> write_bytes(s.m, filename, Plain(<<>>), "none").m,
              exc |-> None, val |-> None]
        ELSE LET n == SegmentToDownload(s.val, 1)
             IN  IF n = 0 THEN [m |-> s.m, exc |-> None, val |-> None]
                 ELSE download_segment(s.m, s.val[n].url, filename, env)

\* AppStoreClient.download_instance: [m, exc, val], val a path or None
download_instance(m, instance_id, filename, env) ==
    LET s == get_segments(m, instance_id, env)
    IN  IF s.exc # None THEN s
        ELSE IF s.val = <<>> THEN [m |-> s.m, exc |-> None, val |-> None]
        ELSE LET n == SegmentToDownload(s.val, 1)
             IN  IF n = 0 THEN [m |-> s.m, exc |-> None, val |-> None]
                 ELSE download_segment(s.m, s.val[n].url, filename, env)

\* the index of the Date column as csv.DictReader maps it: of two columns
\* of the same name the later one wins; 0 when there is none
DateIndex(header) ==
    LET S == {n \in 1..Len(header) : header[n] = Date_}
    IN  IF S = {} THEN 0 ELSE CHOOSE n \in S : \A q \in S : q <= n

ScanDates_NoDigitTest(rows, n, idx, dates) ==
    LET ok == {q \in n..Len(rows) : \A o \in n..q : ~IsBadRow(rows[o])}
    IN  dates \cup {rows[q][idx] : q \in {o \in ok : idx # 0 /\ rows[o] # <<>>
                                                    /\ idx <= Len(rows[o])
                                                    /\ rows[o][idx] # <<>>}}

\* the dates get_date_range's loop has collected from rows[n..] on, given
\* those collected before; a row that cannot be decoded raises and ends
\* the loop, an empty row is skipped by the reader
RECURSIVE ScanDates(_, _, _, _)
ScanDates(rows, n, idx, dates) ==
    IF n > Len(rows) THEN dates
    ELSE IF IsBadRow(rows[n]) THEN dates
    ELSE IF rows[n] = <<>> \/ idx = 0 \/ idx > Len(rows[n])
    THEN ScanDates(rows, n + 1, idx, dates)
    ELSE LET date_val == rows[n][idx]
         IN  IF date_val # <<>> /\ isdigit(date_val[1])
             THEN ScanDates(rows, n + 1, idx, dates \cup {date_val})
             ELSE ScanDates(rows, n + 1, idx, dates)

\* get_date_range(file_path) on the directory f
get_date_range(f, file_path) ==
    LET dates ==
            IF file_path \notin DOMAIN f THEN {}
            ELSE IF f[file_path].enc # "identity" THEN {}
            ELSE IF f[file_path].rows = <<>> THEN {}
            ELSE IF IsBadRow(f[file_path].rows[1]) THEN {}
            ELSE ScanDates(f[file_path].rows, 2,
                           DateIndex(f[file_path].rows[1]), {})
    IN  IF dates # {} THEN <<StrMin(dates), StrMax(dates)>>
        ELSE <<Dash, Dash>>

(***************************************************************************)
(* The configuration and the start of a run                                *)
(***************************************************************************)
\* what the environment provides: ANALYTICS_REQUEST_ID; ISSUER_ID, KEY_ID,
\* PRIVATE_KEY_PATH and the key file (api_key); APP_ID; the file named by
\* GOOGLE_CREDENTIALS_FILE; GOOGLE_SPREADSHEET_ID
Settings ==
    [request_id : BOOLEAN, api_key : BOOLEAN, app_id : BOOLEAN,
     google_credentials : BOOLEAN, spreadsheet_id : BOOLEAN]

AllSet ==
    [request_id |-> TRUE, api_key |-> TRUE, app_id |-> TRUE,
     google_credentials |-> TRUE, spreadsheet_id |-> TRUE]

\* AppStoreClient(): the SystemExit it raises, None when it returns
AppStoreClientInit(c) ==
    IF ~c.api_key THEN Some("Environment variable is not set. Check your .env file.")
    ELSE IF ~c.app_id THEN Some("APP_ID is not set in .env file.")
    ELSE None

WeeklySyncJobInit_NoRequestCheck(c) == AppStoreClientInit(c)

\* WeeklySyncJob(): the SystemExit of __init__, None when the job is built
WeeklySyncJobInit(c) ==
    IF ~c.request_id THEN Some("ANALYTICS_REQUEST_ID is not set.")
    ELSE AppStoreClientInit(c)

\* cli.main with --download-all, up to the call of download_all_reports
CliMainInit(c) ==
    IF AppStoreClientInit(c) # None THEN AppStoreClientInit(c)
    ELSE IF ~c.request_id THEN Some("--request-id is required with --download-all")
    ELSE None

\* a printed line
Line(kind, text) == [kind |-> kind, text |-> text]

\* the process starts: the constructor (or main) runs its checks, and the
\* run begins or the process ends with the message.  The run begins with
\* output_dir.mkdir(parents=True, exist_ok=True), which stands outside every
\* try block: an OSError raised there leaves the run
Startup ==
    /\ pc = "startup"
    /\ prog \in {"weekly_sync", "cli"}
    /\ LET failure == IF prog = "weekly_sync" THEN WeeklySyncJobInit(config)
                       ELSE CliMainInit(config)
       IN  IF failure # None
           THEN /\ pc' = "exited"
                /\ out' = Append(out, Line("SystemExit", The(failure)))
                /\ UNCHANGED faults
           ELSE \E made \in (IF faults < MaxFaults THEN BOOLEAN ELSE {TRUE}) :
                /\ pc' = IF made THEN "download_reports" ELSE "mkdir_crashed"
                /\ faults' = IF made THEN faults ELSE faults + 1
                /\ UNCHANGED out
    /\ UNCHANGED <<prog, i, j, k, downloaded, fs, written, listed, trace, md,
                   arg, ret, config, sheets, u, api, grid>>

(***************************************************************************)
(* The orchestrator: one cell of _download_reports / download_all_reports  *)
(***************************************************************************)
SelectInstance_Last(instances) == instances[Len(instances)]

\* instances[0]
SelectInstance(instances) == instances[1]

\* the body of the try statement up to result.stat(): [m, exc, empty,
\* result]; empty: the instance list was empty (the loop continues),
\* result: what download_instance returned
AttemptCell(m, report_id, granularity, filename, env) ==
    LET gi == get_instances(m, report_id, granularity, env)
    IN  IF gi.exc # None
        THEN [m |-> gi.m, exc |-> gi.exc, empty |-> FALSE, result |-> None]
        ELSE IF gi.val = <<>>
        THEN [m |-> gi.m, exc |-> None, empty |-> TRUE, result |-> None]
        ELSE LET instance == SelectInstance(gi.val)
             IN  IF instance.id = NoKey
                 THEN [m |-> gi.m, exc |-> Exc("KeyError", "'id'"),
                       empty |-> FALSE, result |-> None]
                 ELSE LET di == download_instance(gi.m, instance.id, filename, env)
                      IN  IF di.val # None /\ The(di.val) \notin DOMAIN di.m.fs
                          THEN [m |-> di.m,
                                exc |-> Exc("FileNotFoundError", "No such file"),
                                empty |-> FALSE, result |-> None]
                          ELSE [m |-> di.m, exc |-> di.exc, empty |-> FALSE,
                                result |-> di.val]

Catches_RequestErrors(e) == e.type \in {"ConnectionError", "HTTPError"}

\* `except Exception as e`: does the clause catch e
Catches(e) == e.type \in ExceptionSubclasses

ResultLine_NoReason(a, filename) ==
    IF a.exc # None
    THEN IF Catches(The(a.exc)) THEN <<Line("Error", "")>> ELSE <<>>
    ELSE IF a.empty THEN <<Line("No instances available", "")>>
    ELSE IF a.result # None THEN <<Line("Saved", Name(filename))>>
    ELSE <<Line("No segments available", "")>>

ResultLine_NoElse(a, filename) ==
    IF a.exc # None
    THEN IF Catches(The(a.exc)) THEN <<Line("Error", The(a.exc).msg)>> ELSE <<>>
    ELSE IF a.empty THEN <<Line("No instances available", "")>>
    ELSE IF a.result # None THEN <<Line("Saved", Name(filename))>>
    ELSE <<>>

\* the exception of a leaves the try statement uncaught
Uncaught(a) == a.exc # None /\ ~Catches(The(a.exc))

\* the lines a cell prints after "Downloading: ..."
ResultLine(a, filename) ==
    IF a.exc # None
    THEN IF Catches(The(a.exc)) THEN <<Line("Error", The(a.exc).msg)>> ELSE <<>>
    ELSE IF a.empty THEN <<Line("No instances available", "")>>
    ELSE IF a.result # None THEN <<Line("Saved", Name(filename))>>
    ELSE <<Line("No segments available", "")>>

\* the entry weekly_sync appends for a result; it has no "source" key
Entry(f, filename, result) ==
    [filename |-> Name(filename),
     path |-> result,
     size |-> Size(f[result]),
     oldest |-> get_date_range(f, result)[1],
     newest |-> get_date_range(f, result)[2],
     source |-> Absent]

AppendOutcome_Prepend(list, a, entry) ==
    IF a.exc = None /\ a.result # None THEN <<entry>> \o list ELSE list

\* what the list is after the cell: appended to only `if result`
AppendOutcome(list, a, entry) ==
    IF a.exc = None /\ a.result # None THEN Append(list, entry) ELSE list

\* the environment of the nominal cell: one instance, one segment with a
\* plain URL, the reference payload, a healthy disk
NominalEnv ==
    [inst |-> ApiResp(200, <<Instance("i1")>>),
     segs |-> ApiResp(200, <<CsvTail>>),
     http |-> HttpResp(200, Absent, Plain(RefRows)),
     disk |-> NoFault]

\* the environments of a cell in a run.  A response that is never asked
\* for is left as in NominalEnv.
RunInstFail == {ApiResp(500, <<>>), ApiResp(200, <<>>),
                ApiResp(200, <<Instance(NoKey)>>)}
RunInstOk == {ApiResp(200, <<Instance("i1")>>),
              ApiResp(200, <<Instance("i2"), Instance("i1")>>)}
RunSegsFail == {ApiResp(500, <<>>), ApiResp(200, <<>>), ApiResp(200, <<NoUrl>>)}
RunSegsOk == {ApiResp(200, <<CsvTail>>), ApiResp(200, <<GzTail>>),
              ApiResp(200, <<NoUrl, CsvTail>>)}
RunHttp == {NetErr,
            HttpResp(200, Absent, Plain(RefRows)),
            HttpResp(200, "application/gzip", Gz(RefRows)),
            HttpResp(200, "application/gzip", Plain(RefRows))}
RunDisk == {NoFault, [at |-> "out", how |-> "write"]}
RunEnvs ==
    {[NominalEnv EXCEPT !.inst = x] : x \in RunInstFail}
    \cup {[NominalEnv EXCEPT !.inst = x, !.segs = y] :
            x \in RunInstOk, y \in RunSegsFail}
    \cup [inst : RunInstOk, segs : RunSegsOk, http : RunHttp, disk : RunDisk]

\* the environments the next cell may meet: any, while fewer than MaxFaults
\* cells of the run have met another one than NominalEnv
CellEnvs == IF faults < MaxFaults THEN RunEnvs ELSE {NominalEnv}

NextI_Break(catalog) == i + 1
NextJ_Retry(catalog) == IF j < Len(catalog[i].granularities) THEN j ELSE 1

\* the loop variables after the cell at (i, j) of the catalog
NextI(catalog) == IF j < Len(catalog[i].granularities) THEN i ELSE i + 1
NextJ(catalog) == IF j < Len(catalog[i].granularities) THEN j + 1 ELSE 1

\* the get_instances requests of a trace: <<report_id, granularity>> each
RECURSIVE Requests(_)
Requests(t) ==
    IF t = <<>> THEN <<>>
    ELSE (IF Head(t).op = "get_instances"
          THEN << <<Head(t).report_id, Head(t).granularity>> >> ELSE <<>>)
         \o Requests(Tail(t))

\* the state the cell at (i, j) leaves, common to both programs
CellCommon(catalog, a, filename, env) ==
    /\ faults' = faults + (IF env = NominalEnv THEN 0 ELSE 1)
    /\ fs' = a.m.fs
    /\ written' = a.m.written
    /\ trace' = a.m.trace \o (IF a.exc # None
                              THEN <<[op |-> "raise", exc |-> The(a.exc)]>>
                              ELSE <<>>)
    /\ listed' = listed \o Requests(a.m.trace)
    /\ out' = out \o <<Line("Downloading", Name(filename))>> \o ResultLine(a, filename)
    /\ IF Uncaught(a)
       THEN pc' = "crashed" /\ UNCHANGED <<i, j>>
       ELSE pc' = pc /\ i' = NextI(catalog) /\ j' = NextJ(catalog)
    /\ UNCHANGED <<prog, k, md, arg, ret, config, sheets, u, api, grid>>

\* WeeklySyncJob._download_reports: one iteration of the inner loop
DownloadReportsCell ==
    /\ prog = "weekly_sync"
    /\ pc = "download_reports"
    /\ i <= Len(REPORTS)
    /\ LET d == REPORTS[i]
           granularity == d.granularities[j]
           filename == Format(d.filename_tpl, "g", lower(granularity))
       IN  \E env \in CellEnvs :
             \E a \in {AttemptCell([fs |-> fs, written |-> written, trace |-> <<>>],
                                    ReportId(d.prefix, REQUEST_ID), granularity,
                                    filename, env)} :
                 /\ CellCommon(REPORTS, a, filename, env)
                 /\ downloaded' =
                      AppendOutcome(downloaded, a,
                                    IF a.result = None THEN None
                                    ELSE Entry(a.m.fs, filename, The(a.result)))

\* cli.download_all_reports: one iteration of the inner loop
CliDownloadCell ==
    /\ prog = "cli"
    /\ pc = "download_reports"
    /\ i <= Len(REPORTS_CONFIG)
    /\ LET d == REPORTS_CONFIG[i]
           granularity == d.granularities[j]
           filename == Format(d.filename_tpl, "granularity", lower(granularity))
       IN  \E env \in CellEnvs :
             \E a \in {AttemptCell([fs |-> fs, written |-> written, trace |-> <<>>],
                                    ReportId(d.prefix, REQUEST_ID), granularity,
                                    filename, env)} :
                 /\ CellCommon(REPORTS_CONFIG, a, filename, env)
                 /\ downloaded' =
                      AppendOutcome(downloaded, a,
                                    IF a.result = None THEN None
                                    ELSE The(a.result))

\* the for loops are over: _download_reports prints the count and run goes
\* on to the next stage; download_all_reports returns the list
FinishDownloadReports ==
    /\ pc = "download_reports"
    /\ prog \in {"weekly_sync", "cli"}
    /\ i > Len(IF prog = "cli" THEN REPORTS_CONFIG ELSE REPORTS)
    /\ out' = Append(out, Line("Downloaded", ToString(Len(downloaded))))
    /\ pc' = IF prog = "cli" THEN "done" ELSE "download_firebase"
    /\ trace' = <<>>
    /\ UNCHANGED <<prog, i, j, k, downloaded, fs, written, listed, md, faults, arg, ret,
                 config, sheets, u, api, grid>>


(***************************************************************************)
(* The names the programs test by substring or sort, as characters         *)
(***************************************************************************)
\* the characters of a name
Chars(s) ==
    CASE s = "downloads_standard_daily.csv" ->
           <<"d", "o", "w", "n", "l", "o", "a", "d", "s", "_", "s", "t", "a", "n", "d", "a", "r", "d", "_", "d", "a", "i", "l", "y", ".", "c", "s", "v">>
      [] s = "downloads_detailed_daily.csv" ->
           <<"d", "o", "w", "n", "l", "o", "a", "d", "s", "_", "d", "e", "t", "a", "i", "l", "e", "d", "_", "d", "a", "i", "l", "y", ".", "c", "s", "v">>
      [] s = "downloads_detailed_weekly.csv" ->
           <<"d", "o", "w", "n", "l", "o", "a", "d", "s", "_", "d", "e", "t", "a", "i", "l", "e", "d", "_", "w", "e", "e", "k", "l", "y", ".", "c", "s", "v">>
      [] s = "downloads_detailed_monthly.csv" ->
           <<"d", "o", "w", "n", "l", "o", "a", "d", "s", "_", "d", "e", "t", "a", "i", "l", "e", "d", "_", "m", "o", "n", "t", "h", "l", "y", ".", "c", "s", "v">>
      [] s = "purchases_standard_daily.csv" ->
           <<"p", "u", "r", "c", "h", "a", "s", "e", "s", "_", "s", "t", "a", "n", "d", "a", "r", "d", "_", "d", "a", "i", "l", "y", ".", "c", "s", "v">>
      [] s = "purchases_standard_weekly.csv" ->
           <<"p", "u", "r", "c", "h", "a", "s", "e", "s", "_", "s", "t", "a", "n", "d", "a", "r", "d", "_", "w", "e", "e", "k", "l", "y", ".", "c", "s", "v">>
      [] s = "purchases_standard_monthly.csv" ->
           <<"p", "u", "r", "c", "h", "a", "s", "e", "s", "_", "s", "t", "a", "n", "d", "a", "r", "d", "_", "m", "o", "n", "t", "h", "l", "y", ".", "c", "s", "v">>
      [] s = "install_delete_standard_daily.csv" ->
           <<"i", "n", "s", "t", "a", "l", "l", "_", "d", "e", "l", "e", "t", "e", "_", "s", "t", "a", "n", "d", "a", "r", "d", "_", "d", "a", "i", "l", "y", ".", "c", "s", "v">>
      [] s = "install_delete_standard_weekly.csv" ->
           <<"i", "n", "s", "t", "a", "l", "l", "_", "d", "e", "l", "e", "t", "e", "_", "s", "t", "a", "n", "d", "a", "r", "d", "_", "w", "e", "e", "k", "l", "y", ".", "c", "s", "v">>
      [] s = "install_delete_standard_monthly.csv" ->
           <<"i", "n", "s", "t", "a", "l", "l", "_", "d", "e", "l", "e", "t", "e", "_", "s", "t", "a", "n", "d", "a", "r", "d", "_", "m", "o", "n", "t", "h", "l", "y", ".", "c", "s", "v">>
      [] s = "sessions_standard_daily.csv" ->
           <<"s", "e", "s", "s", "i", "o", "n", "s", "_", "s", "t", "a", "n", "d", "a", "r", "d", "_", "d", "a", "i", "l", "y", ".", "c", "s", "v">>
      [] s = "sessions_standard_weekly.csv" ->
           <<"s", "e", "s", "s", "i", "o", "n", "s", "_", "s", "t", "a", "n", "d", "a", "r", "d", "_", "w", "e", "e", "k", "l", "y", ".", "c", "s", "v">>
      [] s = "sessions_standard_monthly.csv" ->
           <<"s", "e", "s", "s", "i", "o", "n", "s", "_", "s", "t", "a", "n", "d", "a", "r", "d", "_", "m", "o", "n", "t", "h", "l", "y", ".", "c", "s", "v">>
      [] s = "sessions_detailed_weekly.csv" ->
           <<"s", "e", "s", "s", "i", "o", "n", "s", "_", "d", "e", "t", "a", "i", "l", "e", "d", "_", "w", "e", "e", "k", "l", "y", ".", "c", "s", "v">>
      [] s = "sessions_detailed_monthly.csv" ->
           <<"s", "e", "s", "s", "i", "o", "n", "s", "_", "d", "e", "t", "a", "i", "l", "e", "d", "_", "m", "o", "n", "t", "h", "l", "y", ".", "c", "s", "v">>
      [] s = "discovery_standard_daily.csv" ->
           <<"d", "i", "s", "c", "o", "v", "e", "r", "y", "_", "s", "t", "a", "n", "d", "a", "r", "d", "_", "d", "a", "i", "l", "y", ".", "c", "s", "v">>
      [] s = "discovery_standard_weekly.csv" ->
           <<"d", "i", "s", "c", "o", "v", "e", "r", "y", "_", "s", "t", "a", "n", "d", "a", "r", "d", "_", "w", "e", "e", "k", "l", "y", ".", "c", "s", "v">>
      [] s = "discovery_standard_monthly.csv" ->
           <<"d", "i", "s", "c", "o", "v", "e", "r", "y", "_", "s", "t", "a", "n", "d", "a", "r", "d", "_", "m", "o", "n", "t", "h", "l", "y", ".", "c", "s", "v">>
      [] s = "discovery_detailed_daily.csv" ->
           <<"d", "i", "s", "c", "o", "v", "e", "r", "y", "_", "d", "e", "t", "a", "i", "l", "e", "d", "_", "d", "a", "i", "l", "y", ".", "c", "s", "v">>
      [] s = "discovery_detailed_weekly.csv" ->
           <<"d", "i", "s", "c", "o", "v", "e", "r", "y", "_", "d", "e", "t", "a", "i", "l", "e", "d", "_", "w", "e", "e", "k", "l", "y", ".", "c", "s", "v">>
      [] s = "discovery_detailed_monthly.csv" ->
           <<"d", "i", "s", "c", "o", "v", "e", "r", "y", "_", "d", "e", "t", "a", "i", "l", "e", "d", "_", "m", "o", "n", "t", "h", "l", "y", ".", "c", "s", "v">>
      [] s = "firebase_events_summary.csv" ->
           <<"f", "i", "r", "e", "b", "a", "s", "e", "_", "e", "v", "e", "n", "t", "s", "_", "s", "u", "m", "m", "a", "r", "y", ".", "c", "s", "v">>
      [] s = "firebase_daily_users.csv" ->
           <<"f", "i", "r", "e", "b", "a", "s", "e", "_", "d", "a", "i", "l", "y", "_", "u", "s", "e", "r", "s", ".", "c", "s", "v">>
      [] s = "firebase_retention.csv" ->
           <<"f", "i", "r", "e", "b", "a", "s", "e", "_", "r", "e", "t", "e", "n", "t", "i", "o", "n", ".", "c", "s", "v">>
      [] s = "firebase_screens.csv" ->
           <<"f", "i", "r", "e", "b", "a", "s", "e", "_", "s", "c", "r", "e", "e", "n", "s", ".", "c", "s", "v">>
      [] s = "firebase_user_properties.csv" ->
           <<"f", "i", "r", "e", "b", "a", "s", "e", "_", "u", "s", "e", "r", "_", "p", "r", "o", "p", "e", "r", "t", "i", "e", "s", ".", "c", "s", "v">>
      [] s = "notes.csv" ->
           <<"n", "o", "t", "e", "s", ".", "c", "s", "v">>
      [] s = "firebase_downloads.csv" ->
           <<"f", "i", "r", "e", "b", "a", "s", "e", "_", "d", "o", "w", "n", "l", "o", "a", "d", "s", ".", "c", "s", "v">>
      [] s = "firebase" ->
           <<"f", "i", "r", "e", "b", "a", "s", "e">>
      [] s = "downloads" ->
           <<"d", "o", "w", "n", "l", "o", "a", "d", "s">>
      [] s = "purchases" ->
           <<"p", "u", "r", "c", "h", "a", "s", "e", "s">>
      [] s = "install_delete" ->
           <<"i", "n", "s", "t", "a", "l", "l", "_", "d", "e", "l", "e", "t", "e">>
      [] s = "sessions" ->
           <<"s", "e", "s", "s", "i", "o", "n", "s">>
      [] s = "discovery" ->
           <<"d", "i", "s", "c", "o", "v", "e", "r", "y">>
      [] s = "retention" ->
           <<"r", "e", "t", "e", "n", "t", "i", "o", "n">>
      [] s = "days" ->
           <<"d", "a", "y", "s">>
      [] s = "get_events_summary" ->
           <<"g", "e", "t", "_", "e", "v", "e", "n", "t", "s", "_", "s", "u", "m", "m", "a", "r", "y">>
      [] s = "get_daily_active_users" ->
           <<"g", "e", "t", "_", "d", "a", "i", "l", "y", "_", "a", "c", "t", "i", "v", "e", "_", "u", "s", "e", "r", "s">>
      [] s = "get_retention" ->
           <<"g", "e", "t", "_", "r", "e", "t", "e", "n", "t", "i", "o", "n">>
      [] s = "get_user_retention" ->
           <<"g", "e", "t", "_", "u", "s", "e", "r", "_", "r", "e", "t", "e", "n", "t", "i", "o", "n">>
      [] s = "get_screen_views" ->
           <<"g", "e", "t", "_", "s", "c", "r", "e", "e", "n", "_", "v", "i", "e", "w", "s">>
      [] s = "get_user_properties" ->
           <<"g", "e", "t", "_", "u", "s", "e", "r", "_", "p", "r", "o", "p", "e", "r", "t", "i", "e", "s">>

\* needle in name
Contains(name, needle) ==
    LET h == Chars(name)
        w == Chars(needle)
    IN  \E n \in 0..(Len(h) - Len(w)) : SubSeq(h, n + 1, n + Len(w)) = w

(***************************************************************************)
(* WeeklySyncJob._download_firebase                                        *)
(***************************************************************************)
FbReport(method_name, filename) == [method_name |-> method_name, filename |-> filename]

firebase_reports == <<
    FbReport("get_events_summary", [stem |-> "firebase_events_summary", suffix |-> ".csv"]),
    FbReport("get_daily_active_users", [stem |-> "firebase_daily_users", suffix |-> ".csv"]),
    FbReport("get_retention", [stem |-> "firebase_retention", suffix |-> ".csv"]),
    FbReport("get_screen_views", [stem |-> "firebase_screens", suffix |-> ".csv"]),
    FbReport("get_user_properties", [stem |-> "firebase_user_properties", suffix |-> ".csv"]) >>

\* the query methods class FirebaseAnalytics defines
FirebaseMethods ==
    {"get_events_summary", "get_daily_active_users", "get_user_retention",
     "get_screen_views", "get_user_properties"}

\* getattr(firebase, name, None)
getattr(name) == IF name \in FirebaseMethods THEN Some(name) ELSE None

\* the method _download_firebase calls for method_name, None when there is none
ResolveMethod(method_name) ==
    IF getattr(method_name) # None THEN getattr(method_name)
    ELSE getattr(IF Contains(method_name, "retention") THEN "get_user_retention"
                 ELSE method_name)

\* the rows a query returns, as the header and lines export_to_csv writes
FbHeader == << <<"d", "a", "y">>, <<"u", "s", "e", "r", "s">> >>
FbRows == << <<D0103, <<"5">>>> >>

\* FirebaseAnalytics.export_to_csv on non-empty data: [m, exc, val]
export_to_csv(m, data, filename, fault) ==
    LET w == write_bytes(m, filename, Plain(<<FbHeader>> \o data), fault)
    IN  IF w.exc # None THEN [m |-> w.m, exc |-> w.exc, val |-> None]
        ELSE [m |-> Materialized(w.m, filename), exc |-> None, val |-> Some(filename)]

\* the entry appended for a secondary-analytics file
FbEntry(f, filename, result) ==
    [filename |-> Name(filename),
     path |-> result,
     size |-> Size(f[result]),
     oldest |-> Dash,
     newest |-> Dash,
     source |-> "firebase"]

\* the environment of a secondary-analytics report: the rows the query
\* gives ([] also when the query failed: _run_query returns [] then) and the
\* disk
NominalFbEnv == [data |-> FbRows, fault |-> "none"]
FbEnvs == IF faults < MaxFaults
          THEN {NominalFbEnv, [data |-> <<>>, fault |-> "none"],
                [data |-> FbRows, fault |-> "write"]}
          ELSE {NominalFbEnv}

\* FirebaseAnalytics() at the top of _download_firebase: SystemExit when the
\* credentials file is missing, and the stage is skipped
FirebaseConnect ==
    /\ prog = "weekly_sync"
    /\ pc = "download_firebase"
    /\ pc' = IF config.google_credentials THEN "firebase_reports" ELSE "create_summary"
    /\ out' = IF config.google_credentials THEN out
              ELSE Append(out, Line("Skipping Firebase",
                                    "Google credentials file not found"))
    /\ UNCHANGED <<prog, i, j, k, downloaded, fs, written, listed, trace, md, faults,
                   arg, ret, config, sheets, u, api, grid>>

\* one iteration of the loop over firebase_reports
FirebaseReport ==
    /\ prog = "weekly_sync"
    /\ pc = "firebase_reports"
    /\ k <= Len(firebase_reports)
    /\ LET r == firebase_reports[k]
           method == ResolveMethod(r.method_name)
       IN  \E env \in FbEnvs :
             \E x \in {IF method = None \/ env.data = <<>>
                       THEN [m |-> [fs |-> fs, written |-> written, trace |-> <<>>],
                             exc |-> None, val |-> None]
                       ELSE export_to_csv([fs |-> fs, written |-> written, trace |-> <<>>],
                                          env.data, r.filename, env.fault)} :
                 /\ faults' = faults + (IF env = NominalFbEnv THEN 0 ELSE 1)
                 /\ fs' = x.m.fs
                 /\ written' = x.m.written
                 /\ trace' = x.m.trace
                 /\ downloaded' =
                      IF x.val # None
                      THEN Append(downloaded, FbEntry(x.m.fs, r.filename, The(x.val)))
                      ELSE downloaded
                 /\ out' = out \o <<Line("Downloading", r.method_name)>>
                           \o (IF x.exc # None THEN <<Line("Error", The(x.exc).msg)>>
                               ELSE IF x.val # None THEN <<Line("Saved", Name(r.filename))>>
                               ELSE IF method # None THEN <<Line("No data available", "")>>
                               ELSE <<>>)
                 /\ k' = k + 1
    /\ UNCHANGED <<prog, pc, i, j, listed, md, arg, ret, config, sheets, u, api, grid>>

\* the loop is over: the count is printed and run goes on to the summary
FinishFirebase ==
    /\ prog = "weekly_sync"
    /\ pc = "firebase_reports"
    /\ k > Len(firebase_reports)
    /\ out' = Append(out, Line("Downloaded Firebase",
                ToString(Len(SelectSeq(downloaded, LAMBDA f : f.source = "firebase")))))
    /\ pc' = "create_summary"
    /\ trace' = <<>>
    /\ UNCHANGED <<prog, i, j, k, downloaded, fs, written, listed, md, faults, arg, ret,
                 config, sheets, u, api, grid>>

(***************************************************************************)
(* WeeklySyncJob._create_summary                                           *)
(***************************************************************************)
\* the families in the order the dict lists them
CategoryNames ==
    <<"Downloads", "Purchases", "Install-Delete", "Sessions", "Discovery", "Firebase">>

Category_DownloadsFirst(name) ==
    IF Contains(name, "downloads") THEN Some("Downloads")
    ELSE IF Contains(name, "purchases") THEN Some("Purchases")
    ELSE IF Contains(name, "install_delete") THEN Some("Install-Delete")
    ELSE IF Contains(name, "sessions") THEN Some("Sessions")
    ELSE IF Contains(name, "discovery") THEN Some("Discovery")
    ELSE IF Contains(name, "firebase") THEN Some("Firebase")
    ELSE None

Category_NoFirebase(name) ==
    IF Contains(name, "downloads") THEN Some("Downloads")
    ELSE IF Contains(name, "purchases") THEN Some("Purchases")
    ELSE IF Contains(name, "install_delete") THEN Some("Install-Delete")
    ELSE IF Contains(name, "sessions") THEN Some("Sessions")
    ELSE IF Contains(name, "discovery") THEN Some("Discovery")
    ELSE None

\* the if / elif chain: the family of a filename, None when no test matches
Category(name) ==
    IF Contains(name, "firebase") THEN Some("Firebase")
    ELSE IF Contains(name, "downloads") THEN Some("Downloads")
    ELSE IF Contains(name, "purchases") THEN Some("Purchases")
    ELSE IF Contains(name, "install_delete") THEN Some("Install-Delete")
    ELSE IF Contains(name, "sessions") THEN Some("Sessions")
    ELSE IF Contains(name, "discovery") THEN Some("Discovery")
    ELSE None

\* the filenames the cells of REPORTS are saved under, those of the
\* secondary-analytics reports, and all the filenames a run can produce
CatalogFilenames ==
    {Name(Format(REPORTS[n].filename_tpl, "g", lower(REPORTS[n].granularities[g]))) :
        <<n, g>> \in {x \in (1..Len(REPORTS)) \X (1..3) :
                        x[2] <= Len(REPORTS[x[1]].granularities)}}
FirebaseFilenames == {Name(firebase_reports[n].filename) : n \in 1..Len(firebase_reports)}
Filenames == CatalogFilenames \cup FirebaseFilenames

\* filenames no report of the programs has: one that matches no family and
\* no sheet mapping, one that matches two families
FixtureFilenames == {"notes.csv", "firebase_downloads.csv"}

\* Category and the order of the filenames, computed once for each name
CategoryOf == [name \in Filenames \cup FixtureFilenames |-> Category(name)]
RankOf ==
    [name \in Filenames \cup FixtureFilenames |->
        Cardinality({o \in Filenames \cup FixtureFilenames :
                        StrLess(Chars(o), Chars(name))})]

\* categories[cat_name] after the loop over self.downloaded
FilesOf(list, cat_name) ==
    SelectSeq(list, LAMBDA f : CategoryOf[f.filename] = Some(cat_name))

\* sorted(files, key=lambda x: x["filename"]): the stable sort puts an entry
\* after those of smaller filename and after the earlier ones of equal filename
SortByFilename(files) ==
    LET Before(a, b) ==
            \/ RankOf[files[a].filename] < RankOf[files[b].filename]
            \/ RankOf[files[a].filename] = RankOf[files[b].filename] /\ a < b
        Place(a) == 1 + Cardinality({b \in 1..Len(files) : Before(b, a)})
    IN  [p \in 1..Len(files) |-> files[CHOOSE a \in 1..Len(files) : Place(a) = p]]

\* a row of the table of the document
MdRow(file, size, oldest, newest) ==
    [file |-> file, size |-> size, oldest |-> oldest, newest |-> newest]

MdFileRows(files) ==
    [n \in 1..Len(files) |->
        MdRow(files[n].filename, files[n].size, files[n].oldest, files[n].newest)]

\* the rows written for the families from the n-th on
RECURSIVE MdRows(_, _)
MdRows(list, n) ==
    IF n > Len(CategoryNames) THEN <<>>
    ELSE (IF FilesOf(list, CategoryNames[n]) # <<>>
          THEN <<MdRow("**" \o CategoryNames[n] \o "**", 0, <<>>, <<>>)>>
               \o MdFileRows(SortByFilename(FilesOf(list, CategoryNames[n])))
          ELSE <<>>)
         \o MdRows(list, n + 1)

\* the document: the table and the total
SummaryDocument(list) == [rows |-> MdRows(list, 1), total |-> Len(list)]

\* _create_summary opens the document for writing outside every try block:
\* an OSError raised by md_path.open leaves the run, nothing is printed and
\* no document is written
CreateSummary ==
    /\ prog \in {"weekly_sync", "job"}
    /\ pc = "create_summary"
    /\ \E opened \in (IF faults < MaxFaults THEN BOOLEAN ELSE {TRUE}) :
          IF opened
          THEN /\ md' = Some(SummaryDocument(downloaded))
               /\ out' = Append(out, Line("Created", "reports.md"))
               /\ pc' = "upload"
               /\ UNCHANGED faults
          ELSE /\ pc' = "summary_crashed"
               /\ faults' = faults + 1
               /\ UNCHANGED <<md, out>>
    /\ UNCHANGED <<prog, i, j, k, downloaded, fs, written, listed, trace, arg, ret,
                 config, sheets, u, api, grid>>

(***************************************************************************)
(* SheetsClient and WeeklySyncJob._upload_to_sheets                        *)
(***************************************************************************)
\* the tabs of the App Store reports
REPORT_SHEET_NAMES ==
    "downloads_standard_daily.csv" :> "Downloads Daily"
    @@ "downloads_detailed_daily.csv" :> "Downloads Detailed Daily"
    @@ "downloads_detailed_weekly.csv" :> "Downloads Detailed Weekly"
    @@ "downloads_detailed_monthly.csv" :> "Downloads Detailed Monthly"
    @@ "purchases_standard_daily.csv" :> "Purchases Daily"
    @@ "purchases_standard_weekly.csv" :> "Purchases Weekly"
    @@ "purchases_standard_monthly.csv" :> "Purchases Monthly"
    @@ "install_delete_standard_daily.csv" :> "Install-Delete Daily"
    @@ "install_delete_standard_weekly.csv" :> "Install-Delete Weekly"
    @@ "install_delete_standard_monthly.csv" :> "Install-Delete Monthly"
    @@ "sessions_standard_daily.csv" :> "Sessions Daily"
    @@ "sessions_standard_weekly.csv" :> "Sessions Weekly"
    @@ "sessions_standard_monthly.csv" :> "Sessions Monthly"
    @@ "sessions_detailed_weekly.csv" :> "Sessions Detailed Weekly"
    @@ "sessions_detailed_monthly.csv" :> "Sessions Detailed Monthly"
    @@ "discovery_standard_daily.csv" :> "Discovery Daily"
    @@ "discovery_standard_weekly.csv" :> "Discovery Weekly"
    @@ "discovery_standard_monthly.csv" :> "Discovery Monthly"
    @@ "discovery_detailed_daily.csv" :> "Discovery Detailed Daily"
    @@ "discovery_detailed_weekly.csv" :> "Discovery Detailed Weekly"
    @@ "discovery_detailed_monthly.csv" :> "Discovery Detailed Monthly"

\* the secondary-analytics tabs
FIREBASE_SHEET_NAMES ==
    "firebase_events_summary.csv" :> "Firebase Events"
    @@ "firebase_daily_users.csv" :> "Firebase DAU"
    @@ "firebase_retention.csv" :> "Firebase Retention"
    @@ "firebase_screens.csv" :> "Firebase Screens"
    @@ "firebase_user_properties.csv" :> "Firebase Users"

\* dict.get(key): None when the key is missing
DictGet(d, key) == IF key \in DOMAIN d THEN Some(d[key]) ELSE None

SheetName_Fallback(filename) ==
    IF DictGet(REPORT_SHEET_NAMES, filename) # None
    THEN DictGet(REPORT_SHEET_NAMES, filename)
    ELSE IF DictGet(FIREBASE_SHEET_NAMES, filename) # None
    THEN DictGet(FIREBASE_SHEET_NAMES, filename)
    ELSE Some(filename)

SheetName_ReportsOnly(filename) == DictGet(REPORT_SHEET_NAMES, filename)

\* REPORT_SHEET_NAMES.get(filename) or FIREBASE_SHEET_NAMES.get(filename)
SheetName(filename) ==
    IF DictGet(REPORT_SHEET_NAMES, filename) # None
    THEN DictGet(REPORT_SHEET_NAMES, filename)
    ELSE DictGet(FIREBASE_SHEET_NAMES, filename)

\* SheetsClient.read_csv(file_path) on the directory f: [exc, val]
read_csv(f, file_path) ==
    IF file_path \notin DOMAIN f
    THEN [exc |-> Exc("FileNotFoundError", "No such file or directory"), val |-> <<>>]
    ELSE IF f[file_path].enc = "gzip"
            \/ \E n \in 1..Len(f[file_path].rows) : IsBadRow(f[file_path].rows[n])
    THEN [exc |-> Exc("UnicodeDecodeError", "'utf-8' codec can't decode byte"),
          val |-> <<>>]
    ELSE [exc |-> None, val |-> f[file_path].rows]

\* The spreadsheet a client works on: sh = [sheets, api].  sheets maps the
\* title of each tab to its rows of cells, api is the calls made.
Call(sh, op, title) == [sh EXCEPT !.api = Append(@, [op |-> op, title |-> title])]

ApiError == Exc("APIError", "The service is currently unavailable")

\* the grid of a tab made by add_worksheet without rows and cols
DefaultRows == 1000
DefaultCols == 26

\* SheetsClient.get_or_create_worksheet(title, rows, cols)
get_or_create_worksheet(sh, title, rows, cols, fault) ==
    IF fault = "worksheet"
    THEN [sh |-> Call(sh, "worksheet", title), exc |-> ApiError]
    ELSE IF title \in DOMAIN sh.sheets
    THEN [sh |-> Call(sh, "worksheet", title), exc |-> None]
    ELSE [sh |-> [Call(Call(sh, "worksheet", title), "add_worksheet", title)
                    EXCEPT !.sheets = Put(@, title, <<>>),
                           !.grid = Put(@, title, [rows |-> rows, cols |-> cols])],
          exc |-> None]

\* worksheet.clear()
clear(sh, title, fault) ==
    IF fault = "clear" THEN [sh |-> Call(sh, "clear", title), exc |-> ApiError]
    ELSE [sh |-> [Call(sh, "clear", title) EXCEPT !.sheets = Put(@, title, <<>>)],
          exc |-> None]

\* the cells of a tab after values are written from A1 on: a cell the
\* values do not cover keeps what it held
Overlay(old, values) ==
    LET Longer(a, b) == IF a > b THEN a ELSE b
    IN  [r \in 1..Longer(Len(old), Len(values)) |->
            [c \in 1..Longer(IF r <= Len(old) THEN Len(old[r]) ELSE 0,
                              IF r <= Len(values) THEN Len(values[r]) ELSE 0) |->
                IF r <= Len(values) /\ c <= Len(values[r]) THEN values[r][c]
                ELSE old[r][c]]]

\* the values reach beyond the grid of the tab
ExceedsGrid(g, values) ==
    \/ Len(values) > g.rows
    \/ \E r \in 1..Len(values) : Len(values[r]) > g.cols

\* worksheet.update(range_name="A1", values=data): the service refuses a
\* range that exceeds the grid of the tab
update(sh, title, data, fault) ==
    IF fault = "update" THEN [sh |-> Call(sh, "update", title), exc |-> ApiError]
    ELSE IF ExceedsGrid(sh.grid[title], data)
    THEN [sh |-> Call(sh, "update", title),
          exc |-> Exc("APIError", "Range exceeds grid limits")]
    ELSE [sh |-> [Call(sh, "update", title)
                    EXCEPT !.sheets = Put(@, title, Overlay(sh.sheets[title], data))],
          exc |-> None]

upload_data_NoClear(sh, sheet_name, data, clear_first, fault) ==
    IF data = <<>> THEN [sh |-> sh, exc |-> None, val |-> 0]
    ELSE LET w == get_or_create_worksheet(sh, sheet_name, Len(data) + 1000,
                                          Len(data[1]) + 5, fault)
         IN  IF w.exc # None THEN [sh |-> w.sh, exc |-> w.exc, val |-> 0]
             ELSE LET d == update(w.sh, sheet_name, data, fault)
                  IN  [sh |-> d.sh, exc |-> d.exc,
                       val |-> IF d.exc = None THEN Len(data) ELSE 0]

\* SheetsClient.upload_data(sheet_name, data, clear_first): [sh, exc, val]
upload_data(sh, sheet_name, data, clear_first, fault) ==
    IF data = <<>> THEN [sh |-> sh, exc |-> None, val |-> 0]
    ELSE LET w == get_or_create_worksheet(sh, sheet_name, Len(data) + 1000,
                                          Len(data[1]) + 5, fault)
         IN  IF w.exc # None THEN [sh |-> w.sh, exc |-> w.exc, val |-> 0]
             ELSE LET c == IF clear_first THEN clear(w.sh, sheet_name, fault)
                           ELSE [sh |-> w.sh, exc |-> None]
                  IN  IF c.exc # None THEN [sh |-> c.sh, exc |-> c.exc, val |-> 0]
                      ELSE LET d == update(c.sh, sheet_name, data, fault)
                           IN  [sh |-> d.sh, exc |-> d.exc,
                                val |-> IF d.exc = None THEN Len(data) ELSE 0]

\* SheetsClient.upload_csv(file_path, sheet_name) with clear_first=True
upload_csv(sh, f, file_path, sheet_name, fault) ==
    LET data == read_csv(f, file_path)
    IN  IF data.exc # None THEN [sh |-> sh, exc |-> data.exc, val |-> 0]
        ELSE upload_data(sh, sheet_name, data.val, TRUE, fault)

\* worksheet.get_all_values()
get_all_values(sh, title, fault) ==
    IF fault = "get_all_values"
    THEN [sh |-> Call(sh, "get_all_values", title), exc |-> ApiError, val |-> <<>>]
    ELSE [sh |-> Call(sh, "get_all_values", title), exc |-> None,
          val |-> sh.sheets[title]]

\* key_indices: the positions in header of the key columns it holds
KeyIndices(header, key_columns) ==
    {c \in 1..Len(header) : \E q \in 1..Len(key_columns) :
        /\ header[c] = key_columns[q]
        /\ \A b \in 1..(c - 1) : header[b] # key_columns[q]}

upsert_csv_Merges(sh, f, file_path, sheet_name, key_columns, fault) ==
    LET new_data == read_csv(f, file_path)
    IN  IF new_data.exc # None THEN [sh |-> sh, exc |-> new_data.exc, val |-> 0]
        ELSE IF new_data.val = <<>> THEN [sh |-> sh, exc |-> None, val |-> 0]
        ELSE IF KeyIndices(new_data.val[1], key_columns) = {}
        THEN upload_data(sh, sheet_name, new_data.val, TRUE, fault)
        ELSE LET w == get_or_create_worksheet(sh, sheet_name, DefaultRows,
                                              DefaultCols, fault)
             IN  IF w.exc # None THEN [sh |-> w.sh, exc |-> w.exc, val |-> 0]
                 ELSE LET e == get_all_values(w.sh, sheet_name, fault)
                      IN  IF e.val = <<>> \/ e.val[1] # new_data.val[1]
                          THEN upload_data(e.sh, sheet_name, new_data.val, TRUE, fault)
                          ELSE upload_data(e.sh, sheet_name,
                                           e.val \o Tail(new_data.val), TRUE, fault)

\* SheetsClient.upsert_csv(file_path, sheet_name, key_columns): [sh, exc, val]
upsert_csv(sh, f, file_path, sheet_name, key_columns, fault) ==
    LET new_data == read_csv(f, file_path)
    IN  IF new_data.exc # None THEN [sh |-> sh, exc |-> new_data.exc, val |-> 0]
        ELSE IF new_data.val = <<>> THEN [sh |-> sh, exc |-> None, val |-> 0]
        ELSE IF KeyIndices(new_data.val[1], key_columns) = {}
        THEN upload_data(sh, sheet_name, new_data.val, TRUE, fault)
        ELSE LET w == get_or_create_worksheet(sh, sheet_name, DefaultRows,
                                              DefaultCols, fault)
             IN  IF w.exc # None THEN [sh |-> w.sh, exc |-> w.exc, val |-> 0]
                 ELSE LET e == get_all_values(w.sh, sheet_name, fault)
                      IN  IF e.val = <<>> \/ e.val[1] # new_data.val[1]
                          THEN upload_data(e.sh, sheet_name, new_data.val, TRUE, fault)
                          ELSE upload_data(e.sh, sheet_name, new_data.val, TRUE, fault)

\* SheetsClient(): the SystemExit it raises, None when the client is built
SheetsClientInit(c) ==
    IF ~c.google_credentials THEN Some("Google credentials file not found")
    ELSE IF ~c.spreadsheet_id THEN Some("GOOGLE_SPREADSHEET_ID is not set.")
    ELSE None

\* what the service does to the calls of one step
ApiFaults == IF faults < MaxFaults THEN {"none", "worksheet", "clear", "update"}
             ELSE {"none"}

\* the try statement at the top of _upload_to_sheets: the client is built
\* and sheets.spreadsheet_title opens the spreadsheet.  SystemExit skips the
\* step; another exception of the connection is not caught there.
UploadConnect ==
    /\ prog \in {"weekly_sync", "job"}
    /\ pc = "upload"
    /\ \E connected \in (IF faults < MaxFaults /\ SheetsClientInit(config) = None
                         THEN BOOLEAN ELSE {TRUE}) :
         /\ faults' = faults + (IF connected THEN 0 ELSE 1)
         /\ IF SheetsClientInit(config) # None
            THEN /\ out' = Append(out, Line("Skipping Google Sheets upload",
                                            The(SheetsClientInit(config))))
                 /\ pc' = "sync_complete"
                 /\ api' = <<>>
            ELSE IF ~connected
            THEN /\ out' = out
                 /\ pc' = "upload_crashed"
                 /\ api' = <<[op |-> "open_by_key", title |-> ""]>>
            ELSE /\ out' = Append(out, Line("Connected to", "spreadsheet"))
                 /\ pc' = "upload_files"
                 /\ api' = <<[op |-> "open_by_key", title |-> ""]>>
    /\ UNCHANGED <<prog, i, j, k, downloaded, fs, written, listed, trace, md,
                   arg, ret, config, sheets, u, grid>>

AfterUpload_Retry(n, exc) == IF exc = None THEN n + 1 ELSE n

\* `except Exception` around upload_csv: the for statement goes on to the
\* next outcome whether the upload returned or raised
AfterUpload(n, exc) == n + 1

\* one iteration of `for f in self.downloaded`
UploadFile ==
    /\ prog \in {"weekly_sync", "job"}
    /\ pc = "upload_files"
    /\ u <= Len(downloaded)
    /\ LET f == downloaded[u]
           sheet_name == SheetName(f.filename)
       IN  IF sheet_name = None
           THEN /\ out' = Append(out, Line("Skipping", f.filename))
                /\ api' = <<>>
                /\ u' = u + 1
                /\ UNCHANGED <<sheets, faults, grid>>
           ELSE \E fault \in ApiFaults :
                  \E r \in {upload_csv([sheets |-> sheets, api |-> <<>>, grid |-> grid],
                                       fs, f.path,
                                       The(sheet_name), fault)} :
                    /\ faults' = faults + (IF fault = "none" THEN 0 ELSE 1)
                    /\ sheets' = r.sh.sheets
                    /\ grid' = r.sh.grid
                    /\ api' = r.sh.api
                    /\ out' = out \o <<Line("Uploading", f.filename),
                                       IF r.exc # None THEN Line("Error", The(r.exc).msg)
                                       ELSE Line("Uploaded", ToString(r.val))>>
                    /\ u' = AfterUpload(u, r.exc)
    /\ UNCHANGED <<prog, pc, i, j, k, downloaded, fs, written, listed, trace, md,
                   arg, ret, config>>

\* the loop is over
FinishUpload ==
    /\ prog \in {"weekly_sync", "job"}
    /\ pc = "upload_files"
    /\ u > Len(downloaded)
    /\ out' = Append(out, Line("Upload complete!", ""))
    /\ pc' = "sync_complete"
    /\ api' = <<>>
    /\ UNCHANGED <<prog, i, j, k, downloaded, fs, written, listed, trace, md, faults,
                   arg, ret, config, sheets, u, grid>>

\* the end of run: the closing lines
SyncComplete ==
    /\ prog \in {"weekly_sync", "job"}
    /\ pc = "sync_complete"
    /\ out' = Append(out, Line("Files", ToString(Len(downloaded))))
    /\ pc' = "done"
    /\ UNCHANGED <<prog, i, j, k, downloaded, fs, written, listed, trace, md, faults,
                   arg, ret, config, sheets, u, api, grid>>

(***************************************************************************)
(* One call of AppStoreClient.download_instance                            *)
(***************************************************************************)
\* the sequences over S of length at most n
RECURSIVE SeqsUpTo(_, _)
SeqsUpTo(S, n) ==
    IF n = 0 THEN {<<>>}
    ELSE SeqsUpTo(S, n - 1)
         \cup {Append(q, x) : q \in {q \in SeqsUpTo(S, n - 1) : Len(q) = n - 1}, x \in S}

ContentTypes == {Absent, "application/gzip", "application/x-gzip", "text/csv"}
Bodies == {Plain(RefRows), Gz(RefRows), Gz(AltRows)}

MatSegs == {NetErr, ApiResp(500, <<>>)}
           \cup {ApiResp(200, tails) : tails \in SeqsUpTo(UrlTails, MaxSegments)}
MatHttp == {NetErr, HttpResp(404, Absent, Plain(<<>>))}
           \cup {HttpResp(200, c, b) : c \in ContentTypes, b \in Bodies}
MatDisk == {NoFault} \cup [at : {"gz", "out"}, how : {"open", "write"}]
MatEnvs == [inst : {NominalEnv.inst}, segs : MatSegs, http : MatHttp, disk : MatDisk]

\* the file the call is to produce, and what an earlier run left there
MatFilename == Format(REPORTS[1].filename_tpl, "g", lower(REPORTS[1].granularities[1]))
OldBytes == Plain(<< <<Date_>>, <<D0101>> >>)
\* a download whose decompression failed leaves its .csv.gz behind
StaleGz == Plain(<< <<Date_>> >>)
MatDirs == {<<>>, Put(<<>>, MatFilename, OldBytes),
            Put(<<>>, with_suffix(MatFilename, ".csv.gz"), StaleGz)}

InitMat ==
    /\ prog = "materialize"
    /\ pc = "call"
    /\ i = 1 /\ j = 1 /\ k = 1
    /\ downloaded = <<>>
    /\ out = <<>>
    /\ fs \in MatDirs
    /\ written = {}
    /\ listed = <<>>
    /\ trace = <<>>
    /\ md = None
    /\ faults = 0
    /\ config = AllSet /\ sheets = <<>> /\ u = 1 /\ api = <<>> /\ grid = <<>>
    /\ arg \in {Some([instance_id |-> "i1", filename |-> MatFilename, env |-> e]) :
                  e \in MatEnvs}
    /\ ret = None

DownloadInstance ==
    /\ prog \in {"materialize", "roundtrip"}
    /\ pc = "call"
    /\ \E r \in {download_instance([fs |-> fs, written |-> written, trace |-> <<>>],
                                   The(arg).instance_id, The(arg).filename,
                                   The(arg).env)} :
         /\ fs' = r.m.fs
         /\ written' = r.m.written
         /\ trace' = r.m.trace
         /\ ret' = Some([exc |-> r.exc, val |-> r.val])
    /\ pc' = "returned"
    /\ UNCHANGED <<prog, i, j, k, downloaded, out, listed, md, faults, arg,
                 config, sheets, u, api, grid>>

NextMat == DownloadInstance

SpecMat == InitMat /\ [][NextMat]_vars

\* the settings a run starts with; cli.py reads none of the Google ones
RunSettings(p) ==
    {c \in Settings : p = "cli" => c.google_credentials /\ c.spreadsheet_id}

\* the spreadsheet before the run: the tab of the first report holds the
\* rows of an earlier, longer upload
PriorRows ==
    << <<Date_, Units_, <<"x">>>>, <<D0101, <<"1">>, <<"1">>>>, <<D0103, <<"2">>>>,
       <<D0105, <<"3">>>>, <<Total_, <<"6">>>> >>
PriorSheets == Put(<<>>, "Downloads Daily", PriorRows)

\* the grids of the tabs that are there before the run: made by hand, with
\* the size of a new tab
GridOf(tabs) == [t \in DOMAIN tabs |-> [rows |-> DefaultRows, cols |-> DefaultCols]]

Init ==
    /\ prog \in {"weekly_sync", "cli"}
    /\ pc = "startup"
    /\ i = 1 /\ j = 1 /\ k = 1
    /\ downloaded = <<>>
    /\ out = <<>>
    /\ fs = <<>>
    /\ written = {}
    /\ listed = <<>>
    /\ trace = <<>>
    /\ md = None
    /\ config \in RunSettings(prog)
    /\ faults = IF SheetsClientInit(config) = None THEN 0 ELSE 1
    /\ sheets = PriorSheets
    /\ grid = GridOf(sheets)
    /\ u = 1
    /\ api = <<>>
    /\ arg = None
    /\ ret = None

Next ==
    \/ Startup
    \/ DownloadReportsCell
    \/ CliDownloadCell
    \/ FinishDownloadReports
    \/ FirebaseConnect
    \/ FirebaseReport
    \/ FinishFirebase
    \/ CreateSummary
    \/ UploadConnect
    \/ UploadFile
    \/ FinishUpload
    \/ SyncComplete

Spec == Init /\ [][Next]_vars

(***************************************************************************)
(* The summary and the publish step of a job whose outcome list is given   *)
(***************************************************************************)
MaxOutcomes == 2

\* the files of the outcomes
JobPaths ==
    {MatFilename, firebase_reports[2].filename,
     [stem |-> "notes", suffix |-> ".csv"],
     [stem |-> "firebase_downloads", suffix |-> ".csv"]}

\* the output directory in which every file holds bytes
Filled(bytes) == [p \in JobPaths |-> bytes]

\* the outcomes, as the download steps append them for files of RefRows
JobEntries ==
    {IF p = firebase_reports[2].filename THEN FbEntry(Filled(Plain(RefRows)), p, p)
     ELSE Entry(Filled(Plain(RefRows)), p, p) : p \in JobPaths}

\* the directory when the job publishes: the files as downloaded, empty,
\* holding a header only, compressed, or gone
JobDirs ==
    {Filled(Plain(RefRows)), Filled(Plain(<<>>)), Filled(Plain(<< <<Date_, Units_>> >>)),
     Filled(Gz(RefRows)),
     <<>>}

\* the spreadsheet before the job: no tab, a tab with more rows and columns
\* than the file, a tab with one cell
JobSheets == {<<>>, PriorSheets, Put(<<>>, "Downloads Daily", << << <<"o">> >> >>)}

InitJob ==
    /\ prog = "job"
    /\ pc = "create_summary"
    /\ i = 1 /\ j = 1 /\ k = 1
    /\ downloaded \in SeqsUpTo(JobEntries, MaxOutcomes)
    /\ out = <<>>
    /\ fs \in JobDirs
    /\ written = {}
    /\ listed = <<>>
    /\ trace = <<>>
    /\ md = None
    /\ config \in {c \in Settings : c.request_id /\ c.api_key /\ c.app_id
                                       /\ c.google_credentials}
    /\ faults = IF SheetsClientInit(config) = None THEN 0 ELSE 1
    /\ sheets \in JobSheets
    /\ grid = GridOf(sheets)
    /\ u = 1
    /\ api = <<>>
    /\ arg = None
    /\ ret = None

NextJob ==
    \/ CreateSummary
    \/ UploadConnect
    \/ UploadFile
    \/ FinishUpload
    \/ SyncComplete

SpecJob == InitJob /\ [][NextJob]_vars

(***************************************************************************)
(* The cells of a catalog, flattened in the order of the nested for loops  *)
(***************************************************************************)
RECURSIVE CellsFrom(_, _, _, _)
CellsFrom(catalog, name, n, g) ==
    IF n > Len(catalog) THEN <<>>
    ELSE IF g > Len(catalog[n].granularities) THEN CellsFrom(catalog, name, n + 1, 1)
    ELSE <<[report_id |-> ReportId(catalog[n].prefix, REQUEST_ID),
            granularity |-> catalog[n].granularities[g],
            filename |-> Format(catalog[n].filename_tpl, name,
                                lower(catalog[n].granularities[g]))]>>
         \o CellsFrom(catalog, name, n, g + 1)

WeeklyCells == CellsFrom(REPORTS, "g", 1, 1)
CliCells == CellsFrom(REPORTS_CONFIG, "granularity", 1, 1)
Cells == IF prog = "cli" THEN CliCells ELSE WeeklyCells
NumCells == Len(Cells)

\* the number of cells the loops have left behind when they stand at (n, g)
CellsBeforeIn(catalog) ==
    [n \in 1..(Len(catalog) + 1) |->
        [g \in 1..3 |-> Len(CellsFrom(catalog, "g", 1, 1))
                          - Len(CellsFrom(catalog, "g", n, g))]]
WeeklyCellsBefore == CellsBeforeIn(REPORTS)
CliCellsBefore == CellsBeforeIn(REPORTS_CONFIG)
CellsBefore == IF prog = "cli" THEN CliCellsBefore[i][j] ELSE WeeklyCellsBefore[i][j]

\* the cells attempted so far, and whether the traversal is over
Visited == Len(listed)
TraversalDone ==
    pc \notin {"startup", "exited", "mkdir_crashed", "download_reports", "crashed"}

\* the lines the c-th attempt of the run printed
AttemptLine(c) == out[2 * c - 1]
ResultOf(c) == out[2 * c]
ResultKinds == {"Saved", "No instances available", "No segments available", "Error"}

\* the entries of the outcome list that stand for App Store cells
AppStoreEntries ==
    IF prog = "cli" THEN downloaded
    ELSE SelectSeq(downloaded, LAMBDA e : e.source # "firebase")
SavedCells == {c \in 1..Visited : ResultOf(c).kind = "Saved"}

\* C1: failure isolation. No error raised in a cell (listing, segments,
\* download, decompression, file write) ends the traversal: the program never
\* leaves the loop by an exception, the loop variables always stand right
\* after the cells attempted so far, and when the loops are over every cell of
\* the catalog has been attempted, whichever of them raised.
C1_FailureIsolation ==
    /\ pc # "crashed"
    /\ pc = "download_reports" => Visited = CellsBefore
    /\ TraversalDone => Visited = NumCells
    /\ \A c \in 1..Visited : AttemptLine(c) = Line("Downloading", Name(Cells[c].filename))

\* a run whose first cell raised and whose last cell was still downloaded
C1_Witness ==
    /\ TraversalDone
    /\ ResultOf(1).kind = "Error"
    /\ ResultOf(NumCells).kind = "Saved"

TerminalStates == {"NO_INSTANCES", "NO_SEGMENTS", "SUCCEEDED", "FAILED"}
CellState(c) ==
    IF c > Visited \/ 2 * c > Len(out) THEN "PENDING"
    ELSE CASE ResultOf(c).kind = "Saved" -> "SUCCEEDED"
           [] ResultOf(c).kind = "No instances available" -> "NO_INSTANCES"
           [] ResultOf(c).kind = "No segments available" -> "NO_SEGMENTS"
           [] ResultOf(c).kind = "Error" -> "FAILED"
           [] OTHER -> "UNKNOWN"

\* C3: a cell is PENDING until it is attempted, the attempt leaves it in one
\* of the four terminal states, and it stays there: no listing request and no
\* attempt is ever made twice in a run, whatever the first one came to.
C3_NoRetry ==
    /\ [](/\ Visited <= NumCells
          /\ Cardinality({listed[n] : n \in 1..Visited}) = Visited
          /\ Cardinality({AttemptLine(c).text : c \in 1..Visited}) = Visited
          /\ \A c \in 1..Visited : CellState(c) \in TerminalStates
          /\ \A c \in (Visited + 1)..NumCells : CellState(c) = "PENDING")
    /\ [][\A c \in 1..NumCells :
            /\ CellState(c) # "PENDING" => CellState(c)' = CellState(c)
            /\ CellState(c)' \in TerminalStates \cup {"PENDING"}]_vars

\* a run that went on after a failed cell and after an empty one
C3_Witness ==
    /\ Visited = NumCells
    /\ \E c \in 1..(NumCells - 1) :
          /\ CellState(c) \in {"FAILED", "NO_INSTANCES", "NO_SEGMENTS"}
          /\ CellState(c + 1) = "SUCCEEDED"

\* where a filename stands in the traversal
CellIndex ==
    [name \in {Name(WeeklyCells[c].filename) : c \in 1..Len(WeeklyCells)} |->
        CHOOSE c \in 1..Len(WeeklyCells) : Name(WeeklyCells[c].filename) = name]
EntryName(e) == IF prog = "cli" THEN Name(e) ELSE e.filename

\* C4: the listing requests are made in catalog order and, within a
\* definition, in its declared granularity order; when the loops are over
\* every cell has been visited once; the entries of the outcome list stand in
\* the order of their cells.
C4_CatalogOrder ==
    /\ Visited <= NumCells
    /\ \A c \in 1..Visited : listed[c] = <<Cells[c].report_id, Cells[c].granularity>>
    /\ TraversalDone => Visited = NumCells
    /\ \A n \in 1..(Len(AppStoreEntries) - 1) :
          CellIndex[EntryName(AppStoreEntries[n])]
            < CellIndex[EntryName(AppStoreEntries[n + 1])]

\* the loops have passed from one definition to the next and from one
\* granularity to the next, and entries of both definitions are in the list
C4_Witness ==
    /\ Visited >= 3
    /\ listed[1] = <<"r3-REQ", "DAILY">>
    /\ listed[2] = <<"r4-REQ", "DAILY">>
    /\ listed[3] = <<"r4-REQ", "WEEKLY">>
    /\ Len(AppStoreEntries) >= 2

\* the calls and the exception of the cell attempted last
LastOp == trace[Len(trace)]
LastRaised == LastOp.op = "raise"
OpsOf(t) == {t[n].op : n \in 1..Len(t)}
InCell == pc = "download_reports" /\ Visited > 0 /\ trace # <<>>

\* the files the table of the document names
MdFiles == {The(md).rows[n].file : n \in 1..Len(The(md).rows)}

EntryPath(e) == IF prog = "cli" THEN e ELSE e.path
EntryPaths == {EntryPath(downloaded[n]) : n \in 1..Len(downloaded)}

\* C6: at every point of a run the success entries of the outcome list and
\* the destination files the run has written completely are in one-to-one
\* correspondence: no two entries refer to the same file, every entry refers
\* to a complete file on disk, and every such file has its entry.
C6_FilesMatchOutcomes ==
    /\ Len(downloaded) = Cardinality(written)
    /\ EntryPaths = written
    /\ \A p \in EntryPaths : p \in DOMAIN fs /\ fs[p] # Truncated

\* a cell's write failed part-way, its file is on disk without an entry, and
\* later cells were saved
C6_Witness ==
    /\ \E p \in DOMAIN fs : fs[p] = Truncated
    /\ Len(downloaded) >= 2

\* the listing the last cell got, and its segment requests
Listing == trace[1].data
SegmentRequests == {n \in 1..Len(trace) : trace[n].op = "get_segments"}
EmptyInstances == ~LastRaised /\ Listing = <<>>
EmptySegments ==
    /\ ~LastRaised
    /\ \E n \in SegmentRequests : trace[n].data = <<>>
LastFile == Cells[Visited].filename

\* C7: a cell whose instance list is empty, or whose selected instance has an
\* empty segment list, issues no download request and writes nothing: neither
\* its destination file nor its compressed sibling exists afterwards.
C7_NoWritesWhenEmpty ==
    InCell /\ (EmptyInstances \/ EmptySegments) =>
        /\ OpsOf(trace) \cap {"GET", "write", "unlink"} = {}
        /\ LastFile \notin DOMAIN fs
        /\ with_suffix(LastFile, ".csv.gz") \notin DOMAIN fs
        /\ LastFile \notin written
        /\ ResultOf(Visited).kind \in {"No instances available", "No segments available"}

\* a cell with an empty segment list, after cells that did write files
C7_Witness ==
    /\ InCell
    /\ Visited >= 2
    /\ EmptySegments
    /\ Cardinality(DOMAIN fs) = Visited - 1

\* C8: when the listing of a cell is not empty the segments requested are
\* those of the instance at index 0 of the listing as the server returned
\* it; no other instance's segments are requested, and there is at most one
\* segment request in the cell.
C8_FirstInstance ==
    InCell =>
        /\ Cardinality(SegmentRequests) <= 1
        /\ \A n \in SegmentRequests :
              /\ Listing # None
              /\ Listing # <<>>
              /\ trace[n].instance_id = Listing[1].id
        /\ \A n \in 1..Len(trace) :
              trace[n].op = "GET" => trace[n].url[2] = Listing[1].id

\* the server listed two instances, the older one first, and the cell
\* downloaded the first
C8_Witness ==
    /\ InCell
    /\ Len(Listing) = 2
    /\ Listing[1].id # Listing[2].id
    /\ \E n \in 1..Len(trace) : trace[n].op = "GET"

\* one call of download_instance has returned: what it was given and did
Returned == prog = "materialize" /\ pc = "returned"
SegmentList == trace[1].data
Downloads == {n \in 1..Len(trace) : trace[n].op = "GET"}
WithUrl == {q \in 1..Len(SegmentList) : SegmentList[q].url # None}

Response == The(arg).env.http
Fetched == Returned /\ Downloads # {} /\ Response.kind = "http" /\ Response.status = 200
Url == trace[CHOOSE n \in Downloads : TRUE].url
SuffixSignal == Url[Len(Url)] = ".gz"
HeaderSignal == Response.ctype = "application/gzip"
Dest == The(arg).filename
GzPath == with_suffix(Dest, ".csv.gz")
WritesOf(path) == {n \in 1..Len(trace) : trace[n].op = "write" /\ trace[n].path = path}

\* C10: download_segment takes the response for compressed exactly when the
\* URL ends in .gz or the Content-Type header is application/gzip.  Then it
\* stores the response beside the destination and writes the decompressed
\* bytes to the destination; with neither signal it writes the response bytes
\* to the destination as they are and never touches the compressed sibling.
C10_Decompression ==
    Fetched =>
        /\ ~(SuffixSignal \/ HeaderSignal) =>
              /\ WritesOf(GzPath) = {}
              /\ "unlink" \notin OpsOf(trace)
              /\ The(arg).env.disk.at # "out" =>
                    /\ fs[Dest] = Response.content
                    /\ The(ret) = [exc |-> None, val |-> Some(Dest)]
        /\ (SuffixSignal \/ HeaderSignal) /\ The(arg).env.disk = NoFault =>
              /\ \E n \in WritesOf(GzPath) : trace[n].bytes = Response.content
              /\ Response.content.enc = "gzip" =>
                    /\ fs[Dest] = Plain(Response.content.rows)
                    /\ GzPath \notin DOMAIN fs
                    /\ The(ret) = [exc |-> None, val |-> Some(Dest)]
              /\ Response.content.enc # "gzip" =>
                    /\ WritesOf(Dest) = {}
                    /\ The(ret).exc = Exc("BadGzipFile", "Not a gzipped file")

\* the header alone announced the compression and the file was decompressed
C10_Witness ==
    /\ Fetched
    /\ HeaderSignal
    /\ ~SuffixSignal
    /\ Response.content = Gz(RefRows)
    /\ Dest \in DOMAIN fs
    /\ fs[Dest] = Plain(RefRows)

\* the call returned a path
Succeeded == Returned /\ The(ret).val # None
OpsOn(path) == {n \in 1..Len(trace) : trace[n].op \in {"write", "unlink"} /\ trace[n].path = path}

MaxRows == 3

\* the files the call may find: a header and up to MaxRows lines, among
\* them a footer, a line with an empty Date, a short line and a line that
\* cannot be decoded (reached after the lines before it were read, as in a
\* file longer than the reader's buffer)
DateHeaders == {<<Date_, Units_>>, <<Units_, Date_>>, <<Units_>>, <<Date_, Units_, Date_>>}
DateLines ==
    {<<D0105, <<"3">>>>, <<D0101, <<"7">>>>, <<D0103, <<"4">>>>, <<Total_, <<"9">>>>,
     << <<>>, <<"1">> >>, <<D0101>>, << <<Undecodable>>, <<"2">> >>}
DateFiles ==
    {Plain(<<h>> \o lines) : h \in DateHeaders, lines \in SeqsUpTo(DateLines, MaxRows)}
    \cup {Plain(<<>>), Gz(RefRows), Truncated}
DatePath == MatFilename
DateDirs == {<<>>} \cup {Put(<<>>, DatePath, f) : f \in DateFiles}

InitDates ==
    /\ prog = "dates"
    /\ pc = "call"
    /\ i = 1 /\ j = 1 /\ k = 1
    /\ downloaded = <<>>
    /\ out = <<>>
    /\ fs \in DateDirs
    /\ written = {}
    /\ listed = <<>>
    /\ trace = <<>>
    /\ md = None
    /\ faults = 0
    /\ config = AllSet /\ sheets = <<>> /\ u = 1 /\ api = <<>> /\ grid = <<>>
    /\ arg = Some(DatePath)
    /\ ret = None

GetDateRange ==
    /\ prog = "dates"
    /\ pc = "call"
    /\ ret' = Some(get_date_range(fs, The(arg)))
    /\ pc' = "returned"
    /\ UNCHANGED <<prog, i, j, k, downloaded, out, fs, written, listed, trace, md,
                   faults, arg, config, sheets, u, api, grid>>

NextDates == GetDateRange

SpecDates == InitDates /\ [][NextDates]_vars

\* what the call was given, once it has returned
DatesReturned == prog = "dates" /\ pc = "returned"
TheFile == fs[DatePath]
Missing == DatePath \notin DOMAIN fs
WellFormed ==
    /\ ~Missing
    /\ TheFile.enc = "identity"
    /\ TheFile.rows # <<>>
    /\ \A n \in 1..Len(TheFile.rows) : ~IsBadRow(TheFile.rows[n])
HasDateColumn == \E c \in 1..Len(TheFile.rows[1]) : TheFile.rows[1][c] = Date_

\* the Date values of the lines of a file, and those that start with a digit
DateValues(rows) ==
    {rows[n][DateIndex(rows[1])] :
        n \in {q \in 2..Len(rows) : DateIndex(rows[1]) <= Len(rows[q])}}
Digits == {"0", "1", "2", "3", "4", "5", "6", "7", "8", "9"}
DigitDates(rows) == {d \in DateValues(rows) : d # <<>> /\ d[1] \in Digits}

\* C12: for a readable tab-delimited file with a Date column whose lines hold
\* some Date value starting with a digit, get_date_range returns the least
\* and the greatest of these values in lexicographic order; lines whose Date
\* is empty or starts with another character, the order of the lines and
\* repeated values make no difference.
C12_DateRange ==
    DatesReturned /\ WellFormed /\ HasDateColumn /\ DigitDates(TheFile.rows) # {} =>
        /\ The(ret)[1] \in DigitDates(TheFile.rows)
        /\ The(ret)[2] \in DigitDates(TheFile.rows)
        /\ \A d \in DigitDates(TheFile.rows) :
              ~StrLess(d, The(ret)[1]) /\ ~StrLess(The(ret)[2], d)

\* the file of the example: 01-05, then 01-01, then the Total footer
C12_Witness ==
    /\ DatesReturned
    /\ ~Missing
    /\ TheFile = Plain(<< <<Date_, Units_>>, <<D0105, <<"3">>>>, <<D0101, <<"7">>>>,
                          <<Total_, <<"9">>>> >>)
    /\ The(ret) = <<D0101, D0105>>

\* C13 as stated: get_date_range returns the sentinel pair for a missing
\* file, for a malformed file, also one whose reading fails part-way through
\* the lines, and for a file without a Date value starting with a digit
C13_Original ==
    (/\ DatesReturned
     /\ \/ Missing
        \/ ~WellFormed
        \/ ~HasDateColumn
        \/ DigitDates(TheFile.rows) = {}) => The(ret) = <<Dash, Dash>>

(***************************************************************************)
(* The publish step                                                        *)
(***************************************************************************)
\* the outcome the publish loop handles next is in neither mapping
Unmapped ==
    /\ pc = "upload_files"
    /\ u <= Len(downloaded)
    /\ DictGet(REPORT_SHEET_NAMES, downloaded[u].filename) = None
    /\ DictGet(FIREBASE_SHEET_NAMES, downloaded[u].filename) = None

\* C14: an outcome whose filename is in neither sheet mapping causes no call
\* to the spreadsheet (no worksheet lookup or creation, no clear, no update)
\* and leaves every tab as it was; exactly one line is printed for it, a
\* "Skipping" line and no "Error" line; and the loop goes on to the next
\* outcome.
C14_SkipUnmapped ==
    [][Unmapped =>
         /\ api' = <<>>
         /\ sheets' = sheets
         /\ out' = Append(out, Line("Skipping", downloaded[u].filename))
         /\ u' = u + 1
         /\ pc' = "upload_files"
         /\ downloaded' = downloaded]_vars

\* an unmapped outcome was skipped and the outcome after it was uploaded
C14_Witness ==
    /\ pc = "upload_files"
    /\ u = 3
    /\ SheetName(downloaded[1].filename) = None
    /\ out[Len(out) - 2].kind = "Skipping"
    /\ out[Len(out)].kind = "Uploaded"
    /\ api # <<>>

\* the step about to be taken uploads the outcome at u, which has a sheet
Mapped ==
    /\ pc = "upload_files"
    /\ u <= Len(downloaded)
    /\ SheetName(downloaded[u].filename) # None

\* the tab of the outcome at u, and the rows of its local file
Tab == The(SheetName(downloaded[u].filename))
FileRows == fs[downloaded[u].path].rows

\* the line printed last
LastLine == out[Len(out)]

\* C15 as stated: after every upload that returned, the tab holds exactly the
\* rows of the local file
C15_Original ==
    [][(Mapped /\ LastLine'.kind = "Uploaded") =>
         /\ Tab \in DOMAIN sheets'
         /\ sheets'[Tab] = FileRows]_vars

\* C15: an upload of a local file that has at least one row and that returns
\* is a full replace: the tab is looked up (and made when missing), cleared,
\* and then written from A1 on, in this order and with nothing else; after it
\* the tab holds exactly the rows of the file, header row first, and no cell of
\* the prior content, and the other tabs are as before.  For a file with no
\* row the upload makes no call, leaves every tab as it was and reports 0 rows.
C15_FullReplace ==
    [][(Mapped /\ LastLine'.kind = "Uploaded") =>
         IF FileRows = <<>>
         THEN /\ api' = <<>>
              /\ sheets' = sheets
              /\ LastLine'.text = "0"
         ELSE /\ api' = <<[op |-> "worksheet", title |-> Tab]>>
                        \o (IF Tab \in DOMAIN sheets THEN <<>>
                            ELSE <<[op |-> "add_worksheet", title |-> Tab]>>)
                        \o <<[op |-> "clear", title |-> Tab],
                             [op |-> "update", title |-> Tab]>>
              /\ DOMAIN sheets' = DOMAIN sheets \cup {Tab}
              /\ sheets'[Tab] = FileRows
              /\ sheets'[Tab][1] = FileRows[1]
              /\ \A t \in DOMAIN sheets \ {Tab} : sheets'[t] = sheets[t]
              /\ LastLine'.text = ToString(Len(FileRows))]_vars

\* a file of four rows was uploaded to a tab that was there before, with
\* other content
C15_Witness ==
    /\ pc = "upload_files"
    /\ u > 1
    /\ LastLine.kind = "Uploaded"
    /\ api = <<[op |-> "worksheet", title |-> "Downloads Daily"],
               [op |-> "clear", title |-> "Downloads Daily"],
               [op |-> "update", title |-> "Downloads Daily"]>>
    /\ sheets["Downloads Daily"] = RefRows

(***************************************************************************)
(* The configuration preconditions                                         *)
(***************************************************************************)
\* a setting the App Store client or the request needs is missing
CoreMissing == ~config.request_id \/ ~config.api_key \/ ~config.app_id

\* a setting only the Google steps need is missing
GoogleMissing == ~config.google_credentials \/ ~config.spreadsheet_id

\* a line of this kind has been printed
Printed(kind) == \E n \in 1..Len(out) : out[n].kind = kind

FamilyTests ==
    << <<"firebase", "Firebase">>, <<"downloads", "Downloads">>,
       <<"purchases", "Purchases">>, <<"install_delete", "Install-Delete">>,
       <<"sessions", "Sessions">>, <<"discovery", "Discovery">> >>

\* the families whose test a name passes, and the first of them
Hits(name) == {n \in 1..Len(FamilyTests) : Contains(name, FamilyTests[n][1])}
FirstHit ==
    [name \in Filenames \cup FixtureFilenames |->
        IF Hits(name) = {} THEN None
        ELSE Some(FamilyTests[CHOOSE n \in Hits(name) :
                                \A o \in Hits(name) : n <= o][2])]

\* the rows of the document, the rows of a file in it, and the family row
\* a row stands under
DocRows == The(md).rows
IsFamilyRow(n) == \E c \in 1..Len(CategoryNames) :
                     DocRows[n].file = "**" \o CategoryNames[c] \o "**"
RowsOfFile(name) == {n \in 1..Len(DocRows) : DocRows[n].file = name}
FamilyRowOf(n) ==
    DocRows[CHOOSE h \in 1..(n - 1) :
              /\ IsFamilyRow(h)
              /\ \A o \in (h + 1)..(n - 1) : ~IsFamilyRow(o)].file

\* how often a filename occurs in the outcome list
Occurrences(name) == Cardinality({x \in 1..Len(downloaded) : downloaded[x].filename = name})

\* C17: in the summary document every outcome whose filename passes one of
\* the substring tests has exactly one row, under the family of the first
\* test it passes in the order the builder tests (firebase, downloads,
\* purchases, install_delete, sessions, discovery) and under no other; an
\* outcome whose filename passes no test has no row; and the total written is
\* the length of the outcome list either way.
C17_Families ==
    md # None =>
      /\ The(md).total = Len(downloaded)
      /\ \A x \in 1..Len(downloaded) :
           LET name == downloaded[x].filename
           IN  IF FirstHit[name] = None THEN RowsOfFile(name) = {}
               ELSE /\ Cardinality(RowsOfFile(name)) = Occurrences(name)
                    /\ \A n \in RowsOfFile(name) :
                         FamilyRowOf(n) = "**" \o The(FirstHit[name]) \o "**"

\* a summary of a file that matches no family and one that matches two
C17_Witness ==
    /\ md # None
    /\ Len(downloaded) = 2
    /\ downloaded[1].filename = "notes.csv"
    /\ downloaded[2].filename = "firebase_downloads.csv"
    /\ The(md).total = 2
    /\ Len(DocRows) = 2
    /\ DocRows[1].file = "**Firebase**"

(***************************************************************************)
(* The outcome list                                                        *)
(***************************************************************************)
\* the stages of run after the summary was written
AfterSummary == {"upload", "upload_files", "upload_crashed", "sync_complete", "done"}

\* C18: the outcome list only grows at its end: every step leaves the
\* entries it held, in their order and unchanged, and adds at most one after
\* them; only the two download stages add any.  The summary step and the
\* publish step do not change it, so in every stage after the summary the
\* document is the one built from the list as it stands, and the publish
\* loop handles the entries of this list one by one in its order.
C18_AppendOnly ==
    [][/\ Len(downloaded') \in {Len(downloaded), Len(downloaded) + 1}
       /\ SubSeq(downloaded', 1, Len(downloaded)) = downloaded
       /\ pc \notin {"download_reports", "firebase_reports"} => downloaded' = downloaded
       /\ (prog = "weekly_sync" /\ pc' \in AfterSummary) =>
            /\ md' # None
            /\ The(md') = SummaryDocument(downloaded')
       /\ (pc = "upload_files" /\ u <= Len(downloaded)) =>
            /\ out'[Len(out) + 1].text = downloaded[u].filename
            /\ u' = u + 1]_vars

\* a run that appended the outcomes of both download stages, wrote the
\* summary and published the whole list
C18_Witness ==
    /\ prog = "weekly_sync"
    /\ pc = "done"
    /\ Printed("Upload complete!")
    /\ u = Len(downloaded) + 1
    /\ Len(downloaded) > NumCells
    /\ The(md).total = Len(downloaded)

(***************************************************************************)
(* format_file_size                                                        *)
(***************************************************************************)
\* f"{x:.1f}" for x = num / den, den a power of two: the division is exact in
\* a float, and the nearest tenth is printed, a tie going to the even digit
OneDecimal(num, den) ==
    LET q == (10 * num) \div den
        r == (10 * num) % den
        t == IF 2 * r > den \/ (2 * r = den /\ q % 2 = 1) THEN q + 1 ELSE q
    IN  ToString(t \div 10) \o "." \o ToString(t % 10)

format_file_size_Decimal(size_bytes) ==
    IF size_bytes < 1000 THEN ToString(size_bytes) \o "B"
    ELSE IF size_bytes < 1000 * 1000 THEN OneDecimal(size_bytes, 1024) \o "K"
    ELSE OneDecimal(size_bytes, 1024 * 1024) \o "M"

\* format_file_size(size_bytes)
format_file_size(size_bytes) ==
    IF size_bytes < 1024 THEN ToString(size_bytes) \o "B"
    ELSE IF size_bytes < 1024 * 1024 THEN OneDecimal(size_bytes, 1024) \o "K"
    ELSE OneDecimal(size_bytes, 1024 * 1024) \o "M"

\* the sizes formatted: those within MaxDelta of a threshold or of one of the
\* documented examples
MaxDelta == 300

FileSizes ==
    {n \in {a + d : a \in {0, 1024, 1536, 1024 * 1024, 2097152, 5 * 1024 * 1024},
                    d \in (0 - MaxDelta)..MaxDelta} : n >= 0}

InitSize ==
    /\ prog = "size"
    /\ pc = "call"
    /\ i = 1 /\ j = 1 /\ k = 1
    /\ downloaded = <<>>
    /\ out = <<>>
    /\ fs = <<>>
    /\ written = {}
    /\ listed = <<>>
    /\ trace = <<>>
    /\ md = None
    /\ faults = 0
    /\ config = AllSet /\ sheets = <<>> /\ u = 1 /\ api = <<>> /\ grid = <<>>
    /\ arg \in {Some(n) : n \in FileSizes}
    /\ ret = None

FormatFileSize ==
    /\ prog = "size"
    /\ pc = "call"
    /\ ret' = Some(format_file_size(The(arg)))
    /\ pc' = "returned"
    /\ UNCHANGED <<prog, i, j, k, downloaded, out, fs, written, listed, trace, md,
                   faults, arg, config, sheets, u, api, grid>>

NextSize == FormatFileSize

SpecSize == InitSize /\ [][NextSize]_vars

\* the tenths nearest to n / den: the values t with |t / 10 - n / den| <= 1 / 20
NearestTenths(n, den) ==
    {t \in ((10 * n) \div den)..((10 * n) \div den + 1) :
        /\ 2 * (t * den - 10 * n) <= den
        /\ 2 * (10 * n - t * den) <= den}

\* t tenths written with one decimal
Tenths(t) == ToString(t \div 10) \o "." \o ToString(t % 10)

RoundTripEnvs ==
    [inst : {NominalEnv.inst},
     segs : {ApiResp(200, tails) : tails \in SeqsUpTo(UrlTails, MaxSegments)},
     http : {HttpResp(200, c, b) : c \in ContentTypes,
                                   b \in Bodies \cup {Plain(AltRows)}},
     disk : {NoFault}]

InitRoundTrip ==
    /\ prog = "roundtrip"
    /\ pc = "call"
    /\ i = 1 /\ j = 1 /\ k = 1
    /\ downloaded = <<>>
    /\ out = <<>>
    /\ fs \in MatDirs
    /\ written = {}
    /\ listed = <<>>
    /\ trace = <<>>
    /\ md = None
    /\ faults = 0
    /\ config = AllSet /\ sheets = <<>> /\ u = 1 /\ api = <<>> /\ grid = <<>>
    /\ arg \in {Some([instance_id |-> "i1", filename |-> MatFilename, env |-> e]) :
                  e \in RoundTripEnvs}
    /\ ret = None

\* `if result:` after download_instance: get_date_range(result) is called
\* and the entry with its two dates is appended
ReadBack ==
    /\ prog = "roundtrip"
    /\ pc = "returned"
    /\ The(ret).val # None
    /\ downloaded' = Append(downloaded, Entry(fs, The(arg).filename, The(The(ret).val)))
    /\ pc' = "read_back"
    /\ UNCHANGED <<prog, i, j, k, out, fs, written, listed, trace, md, faults, arg, ret,
                   config, sheets, u, api, grid>>

NextRoundTrip ==
    \/ DownloadInstance
    \/ ReadBack

SpecRoundTrip == InitRoundTrip /\ [][NextRoundTrip]_vars

\* the segment was materialized and its date range read back
ReadBackDone == prog = "roundtrip" /\ pc = "read_back"

\* the oldest and newest date fed into the fixture's content
FixtureDates ==
    LET dates == DigitDates(The(arg).env.http.content.rows)
    IN  <<StrMin(dates), StrMax(dates)>>

\* the response body is compressed, and the response says so by one of the
\* two signals download_segment looks at
Compressed == The(arg).env.http.content.enc = "gzip"
Announced ==
    \/ \E n \in 1..Len(trace) : trace[n].op = "GET" /\ trace[n].url[Len(trace[n].url)] = ".gz"
    \/ The(arg).env.http.ctype = "application/gzip"

\* C20 as stated: whatever segment was materialized, compressed or not, the
\* date range read back from the file is the fixture's pair
C20_Original ==
    ReadBackDone =>
      <<downloaded[1].oldest, downloaded[1].newest>> = FixtureDates

\* the part of the round trip that holds: an uncompressed segment, and a
\* compressed one that is announced by the .gz suffix or by application/gzip
RoundTripWhenAnnounced ==
    (ReadBackDone /\ (~Compressed \/ Announced)) =>
      <<downloaded[1].oldest, downloaded[1].newest>> = FixtureDates

(***************************************************************************)
(* One call of SheetsClient.upsert_csv                                     *)
(***************************************************************************)
\* a file whose rows have more columns than a tab of the default size
WideRows ==
    << [c \in 1..(DefaultCols + 1) |-> IF c = 1 THEN Date_ ELSE <<"c">>],
       [c \in 1..(DefaultCols + 1) |-> IF c = 1 THEN D0101 ELSE <<"1">>] >>

\* the local file: as downloaded, empty, a header only, starting with a
\* blank line, wide, compressed, or missing
UpsertDirs ==
    {Put(<<>>, MatFilename, b) :
        b \in {Plain(RefRows), Plain(<<>>), Plain(<< <<Date_, Units_>> >>),
               Plain(<< <<>>, <<Date_, Units_>> >>), Plain(WideRows), Gz(RefRows)}}
    \cup {<<>>}

\* the tab before the call: as in JobSheets, or holding rows under the header
\* of the file
UpsertSheets == JobSheets \cup {Put(<<>>, "Downloads Daily", AltRows)}

\* the key columns asked for: none, some of the header, some not
KeyColumns == {<<>>, <<Date_>>, <<Total_>>, <<Total_, Units_>>, <<Date_, Units_>>}

UpsertFaults == {"none", "worksheet", "get_all_values", "clear", "update"}

InitUpsert ==
    /\ prog = "upsert"
    /\ pc = "call"
    /\ i = 1 /\ j = 1 /\ k = 1
    /\ downloaded = <<>>
    /\ out = <<>>
    /\ fs \in UpsertDirs
    /\ written = {}
    /\ listed = <<>>
    /\ trace = <<>>
    /\ md = None
    /\ faults = 0
    /\ config = AllSet
    /\ sheets \in UpsertSheets
    /\ grid = GridOf(sheets)
    /\ u = 1
    /\ api = <<>>
    /\ arg \in {Some([file_path |-> MatFilename, sheet_name |-> "Downloads Daily",
                      key_columns |-> kc, fault |-> ft]) :
                  kc \in KeyColumns, ft \in UpsertFaults}
    /\ ret = None

UpsertCsv ==
    /\ prog = "upsert"
    /\ pc = "call"
    /\ \E r \in {upsert_csv([sheets |-> sheets, api |-> <<>>, grid |-> grid], fs,
                            The(arg).file_path, The(arg).sheet_name,
                            The(arg).key_columns, The(arg).fault)} :
         /\ sheets' = r.sh.sheets
         /\ grid' = r.sh.grid
         /\ api' = r.sh.api
         /\ ret' = Some([exc |-> r.exc, val |-> r.val])
    /\ pc' = "returned"
    /\ UNCHANGED <<prog, i, j, k, downloaded, out, fs, written, listed, trace, md,
                   faults, arg, config, u>>

NextUpsert == UpsertCsv

SpecUpsert == InitUpsert /\ [][NextUpsert]_vars

\* what upload_csv does on the inputs of the call
AsUploadCsv ==
    upload_csv([sheets |-> sheets, api |-> <<>>, grid |-> grid], fs,
               The(arg).file_path, The(arg).sheet_name,
               IF The(arg).fault = "get_all_values" THEN "none" ELSE The(arg).fault)

\* the call is made, the file can be read and has rows; its header holds
\* one of the key columns; the tab is there before the call
Upserting == prog = "upsert" /\ pc = "call"
HasRows == read_csv(fs, The(arg).file_path).exc = None
           /\ read_csv(fs, The(arg).file_path).val # <<>>
KeyFound == \E q \in 1..Len(The(arg).key_columns) :
               \E c \in 1..Len(fs[The(arg).file_path].rows[1]) :
                  fs[The(arg).file_path].rows[1][c] = The(arg).key_columns[q]
TabThere == The(arg).sheet_name \in DOMAIN sheets

SpecFair == Init /\ [][Next]_vars /\ WF_vars(Next)

\* run() has been entered: the constructor found its settings
RunEntered == prog = "weekly_sync" /\ pc = "startup" /\ ~CoreMissing
\* run() returned after its last stage, the summary document written
RunCompleted == pc = "done" /\ md # None
\* run() was left by an exception that no stage caught
RunAborted == pc \in {"mkdir_crashed", "crashed", "summary_crashed", "upload_crashed"}

\* C22: provided every external call returns or raises an ordinary
\* exception, every run of WeeklySyncJob.run that was entered terminates
\* having executed download reports, download secondary analytics, create
\* summary and upload in that order: the summary is written and the run
\* returns from its last stage, whatever failed on the way.
C22_Original == RunEntered ~> RunCompleted

\* every run that was entered ends, by returning or by an uncaught exception
RunTerminates == RunEntered ~> (RunCompleted \/ RunAborted)

(***************************************************************************)
(* Publish isolation                                                       *)
(***************************************************************************)
\* the outcomes the publish loop has taken up, in the order of its lines
PublishLines == SelectSeq(out, LAMBDA l : l.kind \in {"Skipping", "Uploading"})
Considered == [n \in 1..Len(PublishLines) |-> PublishLines[n].text]
OutcomeNames(n) == [c \in 1..n |-> downloaded[c].filename]

\* C23: in the publish step each outcome of the list is taken up exactly
\* once and in list order: the loop stands right after the outcomes taken up
\* so far and ends with all of them taken up.  Each outcome that has a tab
\* gets one upload attempt with one result, a row count or an error; an error
\* is printed and the loop goes on, so it never ends the step.
C23_PublishIsolation ==
    /\ pc = "upload_files" =>
         /\ u \in 1..(Len(downloaded) + 1)
         /\ Considered = OutcomeNames(u - 1)
    /\ Printed("Upload complete!") => Considered = OutcomeNames(Len(downloaded))
    /\ pc \in {"sync_complete", "done"} /\ Printed("Connected to") =>
         Printed("Upload complete!")
    /\ \A n \in 1..Len(out) :
         /\ out[n].kind = "Uploading" =>
              n < Len(out) /\ out[n + 1].kind \in {"Uploaded", "Error"}
         /\ out[n].kind = "Uploaded" => n > 1 /\ out[n - 1].kind = "Uploading"

\* the upload of the first outcome raised and the second outcome was
\* uploaded after it
C23_Witness ==
    /\ Printed("Upload complete!")
    /\ Len(downloaded) = 2
    /\ \E n \in 1..Len(out) :
         /\ n + 2 <= Len(out)
         /\ out[n].kind = "Error"
         /\ out[n + 1] = Line("Uploading", downloaded[2].filename)
         /\ out[n + 2].kind = "Uploaded"
         /\ out[n + 2].text # "0"

(***************************************************************************)
(* A decompression that fails                                              *)
(***************************************************************************)
\* the cell the next step of the loops attempts, and its compressed sibling
CellDest == Cells[Visited + 1].filename
CellGz == with_suffix(CellDest, ".csv.gz")
WritesIn(t, path) == {n \in 1..Len(t) : t[n].op = "write" /\ t[n].path = path}
\* the step is a cell in which the decompression raised
DecompressionFails ==
    /\ pc = "download_reports"
    /\ Visited' = Visited + 1
    /\ trace' # <<>>
    /\ LastRaised'
    /\ LastOp'.exc.type = "BadGzipFile"

\* C24: when the decompression of a response taken for compressed fails, the
\* cell writes nothing to the destination path (no write, no truncation: the
\* path and every other file are as before the cell), the .csv.gz sibling
\* stays on disk holding the response as received, the error reaches the
\* cell boundary, where it is printed, and the outcome list gets no entry.
C24_DecompressionFails ==
    [][DecompressionFails =>
         /\ WritesIn(trace', CellDest) = {}
         /\ CellDest \in DOMAIN fs' <=> CellDest \in DOMAIN fs
         /\ \A p \in DOMAIN fs' \ {CellGz} : p \in DOMAIN fs /\ fs'[p] = fs[p]
         /\ CellGz \in DOMAIN fs'
         /\ fs'[CellGz].enc # "gzip"
         /\ \E n \in WritesIn(trace', CellGz) : trace'[n].bytes = fs'[CellGz]
         /\ "unlink" \notin OpsOf(trace')
         /\ written' = written
         /\ downloaded' = downloaded
         /\ LastLine'.kind = "Error"
         /\ LastLine'.text = "Not a gzipped file"
         /\ pc' = "download_reports"]_vars

\* the decompression failed in the first cell: its sibling is on disk, its
\* destination is not, and the run went on to save the second cell
C24_Witness ==
    /\ Visited = 2
    /\ ResultOf(1) = Line("Error", "Not a gzipped file")
    /\ ResultOf(2).kind = "Saved"
    /\ with_suffix(Cells[1].filename, ".csv.gz") \in DOMAIN fs
    /\ Cells[1].filename \notin DOMAIN fs
    /\ Len(downloaded) = 1

\* download_instance alone, a file of an earlier run at the destination: a
\* failed decompression leaves that file as it was
DecompressionKeepsOldFile ==
    (Returned /\ The(ret).exc = Exc("BadGzipFile", "Not a gzipped file")) =>
        /\ The(ret).val = None
        /\ WritesOf(Dest) = {}
        /\ GzPath \in DOMAIN fs
        /\ fs[GzPath] = Response.content
        /\ Dest \in DOMAIN fs => fs[Dest] = OldBytes

(***************************************************************************)
(* The tabs of the filenames of a run                                      *)
(***************************************************************************)
\* C25: each of the 21 filenames the cells of REPORTS are saved under is a
\* key of REPORT_SHEET_NAMES and each of the 5 secondary-analytics filenames
\* is a key of FIREBASE_SHEET_NAMES; REPORT_SHEET_NAMES has no other key.  So
\* every entry of the outcome list of a run has a tab, and the publish step
\* never prints that it skips one.
C25_AllMapped ==
    /\ Cardinality(CatalogFilenames) = 21
    /\ Cardinality(FirebaseFilenames) = 5
    /\ CatalogFilenames \subseteq DOMAIN REPORT_SHEET_NAMES
    /\ FirebaseFilenames \subseteq DOMAIN FIREBASE_SHEET_NAMES
    /\ DOMAIN REPORT_SHEET_NAMES \subseteq CatalogFilenames
    /\ prog = "weekly_sync" =>
         /\ \A n \in 1..Len(downloaded) : SheetName(downloaded[n].filename) # None
         /\ ~Printed("Skipping")

\* a run that saved all its 26 files and took each of them to its tab
C25_Witness ==
    /\ prog = "weekly_sync"
    /\ Printed("Upload complete!")
    /\ Len(downloaded) = 26
    /\ Len(PublishLines) = 26
    /\ \A n \in 1..26 : PublishLines[n] = Line("Uploading", downloaded[n].filename)
    /\ {downloaded[n].filename : n \in 1..26} = CatalogFilenames \cup FirebaseFilenames

(***************************************************************************)
(* The families of the filenames of a run                                  *)
(***************************************************************************)
\* the rows of the document that head a family, and those that stand for
\* files
FamilyRows == {n \in 1..Len(DocRows) : IsFamilyRow(n)}
FileRowsOfDoc == (1..Len(DocRows)) \ FamilyRows
\* the files the document lists under a family: the rows between its
\* heading and the next one
CountUnder(family) ==
    LET heads == FamilyRows
        mine == {h \in heads : DocRows[h].file = "**" \o family \o "**"}
    IN  Cardinality({n \in (1..Len(DocRows)) \ heads :
                        \E h \in mine : h < n /\ \A o \in heads : ~(h < o /\ o < n)})
RECURSIVE SumCounts(_)
SumCounts(n) == IF n = 0 THEN 0 ELSE CountUnder(CategoryNames[n]) + SumCounts(n - 1)

\* the tests each filename of a run passes
HitsOf == [name \in Filenames |-> Hits(name)]

\* C26: each of the 26 filenames a run can produce passes the substring test
\* of exactly one family, which is the family the builder files it under, so
\* testing the families in another order gives the same family.  In the
\* document of a run every outcome has its row, and the numbers of files
\* listed under the families add up to the total written.
C26_OneFamily ==
    /\ Cardinality(Filenames) = 26
    /\ \A name \in Filenames : HitsOf[name] # {}
    /\ \A name \in Filenames : \A n, o \in HitsOf[name] : n = o
    /\ \A name \in Filenames :
         \A n \in HitsOf[name] : CategoryOf[name] = Some(FamilyTests[n][2])
    /\ (prog = "weekly_sync" /\ md # None) =>
         /\ \A x \in 1..Len(downloaded) : RowsOfFile(downloaded[x].filename) # {}
         /\ Cardinality(FileRowsOfDoc) = Len(downloaded)
         /\ SumCounts(Len(CategoryNames)) = The(md).total
         /\ The(md).total = Len(downloaded)

\* the document of a run that saved all its 26 files: six families
C26_Witness ==
    /\ prog = "weekly_sync"
    /\ md # None
    /\ The(md).total = 26
    /\ Cardinality(FileRowsOfDoc) = 26
    /\ \A c \in 1..Len(CategoryNames) : CountUnder(CategoryNames[c]) > 0
    /\ CountUnder("Firebase") = 5
    /\ CountUnder("Sessions") = 5

(***************************************************************************)
(* The destination paths of a run                                          *)
(***************************************************************************)
\* md_path = self.output_dir / f"{self.date_str}-reports.md"
md_path(date_str) == [stem |-> date_str \o "-reports", suffix |-> ".md"]
DateStrs == {"2025-01-06", "2026-11-01"}

\* the destinations of the cells and of the secondary-analytics reports
CellPaths == {Cells[c].filename : c \in 1..NumCells}
FirebasePaths == {firebase_reports[n].filename : n \in 1..Len(firebase_reports)}
\* the paths a trace wrote to or deleted
Touched(t) == {t[n].path : n \in {x \in 1..Len(t) : t[x].op \in {"write", "unlink"}}}
CellStep == pc = "download_reports" /\ Visited' = Visited + 1

\* C27: the filenames of distinct cells are pairwise distinct, and distinct
\* from the filenames of the secondary-analytics reports and from the name of
\* the summary document.  A cell touches only its own destination and the
\* .csv.gz sibling of it, never the destination of another cell, and no step
\* of a run changes a file that an entry of the outcome list stands for.
C27_DistinctPaths ==
    [][/\ \A c, d \in 1..NumCells : Cells[c].filename = Cells[d].filename => c = d
       /\ Cardinality({Name(p) : p \in CellPaths}) = NumCells
       /\ CellPaths \cap FirebasePaths = {}
       /\ \A date_str \in DateStrs : md_path(date_str) \notin CellPaths \cup FirebasePaths
       /\ CellStep =>
            /\ Touched(trace') \subseteq {CellDest, CellGz}
            /\ \A p \in DOMAIN fs' :
                 p \notin {CellDest, CellGz} => p \in DOMAIN fs /\ fs'[p] = fs[p]
            /\ \A c \in 1..NumCells :
                 c # Visited + 1 => Cells[c].filename \notin {CellDest, CellGz}
       /\ \A n \in 1..Len(downloaded) :
            /\ EntryPath(downloaded[n]) \in DOMAIN fs'
            /\ fs'[EntryPath(downloaded[n])] = fs[EntryPath(downloaded[n])]]_vars

\* two cells were saved one after the other, each in its own file, and the
\* file of the first is as the first cell wrote it
C27_Witness ==
    /\ pc = "download_reports"
    /\ Visited = 2
    /\ Len(downloaded) = 2
    /\ EntryPath(downloaded[1]) = Cells[1].filename
    /\ EntryPath(downloaded[2]) = Cells[2].filename
    /\ Cells[1].filename # Cells[2].filename
    /\ fs[Cells[1].filename] = Plain(RefRows)
    /\ Touched(trace) = {Cells[2].filename}

====
